---- MODULE Spec2Model ----
(***************************************************************************)
(* A model of the IPA helper core: the wire format of IPAInputRow           *)
(* (src/protocol/ipa/mod.rs) and the ipa attribution pipeline that each of  *)
(* the three helpers runs over its replicated shares.                       *)
(***************************************************************************)
EXTENDS Integers, Naturals, Sequences, FiniteSets, TLC

VARIABLES
    \* ---- serialization (tests::serde_internal, IPAInputRow) ----
    spc,        \* position of the serde run
    rows,       \* the rows handed to serialize, in order
    buf,        \* the byte buffer
    parsed,     \* from_byte_slice(buf).collect()
    single,     \* value returned by deserialize(buf), when it returns
    outcome,    \* how the last call ended
    \* ---- the ipa pipeline, as run by the three helpers (ipa) ----
    ipc,                    \* the stage ipa has completed
    prss,                   \* the seed of the pseudorandom secret sharing
    mk_bits,                \* B::BITS of the instantiation ipa<F, B>
    input_rows,             \* per helper: input_rows
    per_user_credit_cap,
    max_breakdown_key,
    converted_shares,       \* per helper: converted_shares (bit-major)
    sort_permutation,       \* the revealed permutation and the shuffle it was revealed under
    sorted_rows,            \* per helper: sorted_rows
    helper_bits,            \* per helper: helper_bits
    attribution_input_rows, \* per helper
    accumulated_credits,    \* per helper
    user_capped_credits,    \* per helper
    result,                 \* per helper: the value ipa returns
    \* one call of sort_by_aggregation_bit_and_breakdown_key (tests::sort)
    sort_pc,                        \* where the call stands
    sort_input,                     \* per helper: the rows handed in
    sort_sorted_by_aggregation_bit, \* per helper: the rows after the first sort
    sort_output,                    \* per helper: the rows returned
    \* one composite reshare call, run by the three helpers concurrently
    rs_call,       \* the row type, the jointly held row, record_id and to_helper
    rs_pc,         \* per helper: where its call stands
    rs_wire,       \* messages sent and not yet received
    rs_outputs,    \* per helper: the output of every field reshare that completed
    rs_completed,  \* per helper: the field reshares in the order they completed
    rs_delivered,  \* which field's message every completed receive was handed
    rs_result,     \* per helper: the row its call returned
    \* one channel (peer, step path) at the receiving helper
    rc_inner,        \* ReceiveRecordsInner: "Pending" or "Ready"
    rc_streams,      \* the StreamCollection entry under the channel's key
    rc_stream,       \* the records of the peer's stream that arrived and were not yet yielded
    rc_stream_waker, \* whether the stream holds the waker of the polling task
    rc_woken,        \* whether the polling task is scheduled to run
    rc_unsent,       \* the record ids the peer has yet to send
    rc_table,        \* the in-flight table: messages that arrived before their receive
    rc_recv,         \* per record id: the state of receive(r) and the payload it returned
    rc_yielded,      \* the items poll_next has returned, in order
    \* one query as the three helpers run ipa side by side
    lk_rows,     \* per helper: the number of input rows it was handed
    lk_pc,       \* per helper: the number of steps it has narrowed to and started
    lk_pending,  \* per helper: the record ids whose receive has not completed
    lk_issued,   \* per helper: the tasks it has started, in order
    lk_wire,     \* messages sent and not yet received
    \* the helper process (bin/helper.rs)
    hp_pc,                    \* where main stands
    hp_identity,              \* the --identity argument
    hp_processor_identities,  \* the identities handed to Processor::new
    hp_server,                \* the transport server task
    hp_query,                 \* the query-processor task
    hp_handled,               \* the number of handle_next calls that completed
    hp_exit                   \* the exit status of the process (-1 while it runs): 0 when
                              \* main returns Ok, 1 when it returns Err, 2 when clap
                              \* rejects the arguments, 101 when a panic unwinds main

serdeVars == <<spc, rows, buf, parsed, single, outcome>>

ipaVars == <<ipc, prss, mk_bits, input_rows, per_user_credit_cap, max_breakdown_key,
             converted_shares, sort_permutation, sorted_rows, helper_bits,
             attribution_input_rows, accumulated_credits, user_capped_credits, result>>

sortVars == <<sort_pc, sort_input, sort_sorted_by_aggregation_bit, sort_output>>

\* the state of the units run on their own
reshareVars == <<rs_call, rs_pc, rs_wire, rs_outputs, rs_completed, rs_delivered, rs_result>>

recvVars == <<rc_inner, rc_streams, rc_stream, rc_stream_waker, rc_woken, rc_unsent,
              rc_table, rc_recv, rc_yielded>>

lockVars == <<lk_rows, lk_pc, lk_pending, lk_issued, lk_wire>>

helperVars == <<hp_pc, hp_identity, hp_processor_identities, hp_server, hp_query,
                hp_handled, hp_exit>>

unitVars == <<sortVars, reshareVars, recvVars, lockVars, helperVars>>

vars == <<serdeVars, ipaVars, unitVars>>

----------------------------------------------------------------------------
(* Bounds *)

\* largest number of rows serialized back to back into one buffer
SerdeMaxRows == 2
\* largest number of input rows of an ipa query
MaxRows == 3

----------------------------------------------------------------------------
(* Field and bit-array parameters of the instantiation IPAInputRow<Fp31, MatchKey> *)

\* modulus of Fp31
PRIME == 31
\* bytes of one Fp31 element
FIELD_SIZE_IN_BYTES == 1
\* bits of a MatchKey
MATCHKEY_BITS == 40
\* bytes of one MatchKey
MATCHKEY_SIZE_IN_BYTES == 5

RECURSIVE Pow2(_)
Pow2(n) == IF n = 0 THEN 1 ELSE 2 * Pow2(n - 1)

\* little-endian canonical encoding of the field element x in n bytes
RECURSIVE LittleEndian(_, _)
LittleEndian(x, n) ==
    IF n = 0 THEN <<>> ELSE <<x % 256>> \o LittleEndian(x \div 256, n - 1)

\* the integer whose little-endian encoding is the byte sequence bs
RECURSIVE FromLittleEndian(_)
FromLittleEndian(bs) ==
    IF bs = <<>> THEN 0 ELSE Head(bs) + 256 * FromLittleEndian(Tail(bs))

\* A bit array is the sequence of its bits, least significant first.
\* the n-bit array holding the integer x
RECURSIVE ToBits(_, _)
ToBits(x, n) == IF n = 0 THEN <<>> ELSE <<x % 2>> \o ToBits(x \div 2, n - 1)

\* the integer an (at most 30-bit) array of bits holds
RECURSIVE BitsValue(_)
BitsValue(bits) ==
    IF bits = <<>> THEN 0 ELSE Head(bits) + 2 * BitsValue(Tail(bits))

\* little-endian bytes of a bit array: byte k packs bits 8k .. 8k+7
BitsToBytes(bits) ==
    [k \in 1..(Len(bits) \div 8) |-> BitsValue(SubSeq(bits, 8 * (k - 1) + 1, 8 * k))]

\* the bit array a byte sequence encodes
BytesToBits(bs) ==
    [i \in 1..(8 * Len(bs)) |-> (bs[((i - 1) \div 8) + 1] \div Pow2((i - 1) % 8)) % 2]

\* Replicated<F>::SIZE_IN_BYTES and XorReplicated<B>::SIZE_IN_BYTES
ReplicatedSize == 2 * FIELD_SIZE_IN_BYTES
XorReplicatedSize == 2 * MATCHKEY_SIZE_IN_BYTES

\* Replicated<F>::serialize: l then r
ReplicatedSerialize(s) ==
    LittleEndian(s[1], FIELD_SIZE_IN_BYTES) \o LittleEndian(s[2], FIELD_SIZE_IN_BYTES)

\* Replicated<F>::deserialize reads the first ReplicatedSize bytes of the slice
ReplicatedDeserialize(slice) ==
    << FromLittleEndian(SubSeq(slice, 1, FIELD_SIZE_IN_BYTES)),
       FromLittleEndian(SubSeq(slice, FIELD_SIZE_IN_BYTES + 1, 2 * FIELD_SIZE_IN_BYTES)) >>

\* XorReplicated<B>::serialize: l then r
XorReplicatedSerialize(s) == BitsToBytes(s[1]) \o BitsToBytes(s[2])

\* XorReplicated<B>::deserialize reads the first XorReplicatedSize bytes of the slice
XorReplicatedDeserialize(slice) ==
    << BytesToBits(SubSeq(slice, 1, MATCHKEY_SIZE_IN_BYTES)),
       BytesToBits(SubSeq(slice, MATCHKEY_SIZE_IN_BYTES + 1, 2 * MATCHKEY_SIZE_IN_BYTES)) >>

----------------------------------------------------------------------------
(* IPAInputRow: SIZE_IN_BYTES, serialize, from_byte_slice, deserialize *)

\* const SIZE_IN_BYTES
SIZE_IN_BYTES == 3 * ReplicatedSize + XorReplicatedSize

\* &buf[off..] : the slice starting off bytes in (off counted from 0)
SliceFrom(b, off) == SubSeq(b, off + 1, Len(b))

\* writing bytes at the start of &mut buf[off..]
WriteAt(b, off, bytes) ==
    [i \in 1..Len(b) |->
        IF i > off /\ i <= off + Len(bytes) THEN bytes[i - off] ELSE b[i]]

\* the offsets serialize writes its four fields at
SerializeOffsetsSwapped ==
    [mk_shares      |-> 0,
     is_trigger_bit |-> XorReplicatedSize,
     breakdown_key  |-> XorReplicatedSize + 2 * ReplicatedSize,
     trigger_value  |-> XorReplicatedSize + ReplicatedSize]

SerializeOffsets ==
    [mk_shares      |-> 0,
     is_trigger_bit |-> XorReplicatedSize,
     breakdown_key  |-> XorReplicatedSize + ReplicatedSize,
     trigger_value  |-> XorReplicatedSize + 2 * ReplicatedSize]

\* the offsets from_byte_slice reads its four fields at
ReadOffsetsShort ==
    [mk_shares      |-> 0,
     is_trigger_bit |-> XorReplicatedSize,
     breakdown_key  |-> XorReplicatedSize + FIELD_SIZE_IN_BYTES,
     trigger_value  |-> XorReplicatedSize + 2 * ReplicatedSize]

ReadOffsets ==
    [mk_shares      |-> 0,
     is_trigger_bit |-> XorReplicatedSize,
     breakdown_key  |-> XorReplicatedSize + ReplicatedSize,
     trigger_value  |-> XorReplicatedSize + 2 * ReplicatedSize]

\* IPAInputRow::serialize(self, buf): the buffer after the four writes
Serialize(row, b) ==
    LET b1 == WriteAt(b, SerializeOffsets.mk_shares, XorReplicatedSerialize(row.mk_shares))
        b2 == WriteAt(b1, SerializeOffsets.is_trigger_bit, ReplicatedSerialize(row.is_trigger_bit))
        b3 == WriteAt(b2, SerializeOffsets.breakdown_key, ReplicatedSerialize(row.breakdown_key))
    IN  WriteAt(b3, SerializeOffsets.trigger_value, ReplicatedSerialize(row.trigger_value))

\* the closure from_byte_slice maps over the chunks
ChunkToRow(chunk) ==
    [mk_shares      |-> XorReplicatedDeserialize(SliceFrom(chunk, ReadOffsets.mk_shares)),
     is_trigger_bit |-> ReplicatedDeserialize(SliceFrom(chunk, ReadOffsets.is_trigger_bit)),
     breakdown_key  |-> ReplicatedDeserialize(SliceFrom(chunk, ReadOffsets.breakdown_key)),
     trigger_value  |-> ReplicatedDeserialize(SliceFrom(chunk, ReadOffsets.trigger_value))]

\* input.chunks(SIZE_IN_BYTES) on an aligned input
Chunks(input) ==
    [k \in 1..(Len(input) \div SIZE_IN_BYTES) |->
        SubSeq(input, (k - 1) * SIZE_IN_BYTES + 1, k * SIZE_IN_BYTES)]

\* the rows from_byte_slice iterates over, once its alignment assertion passed
FromByteSliceRows(input) ==
    LET cs == Chunks(input) IN [k \in 1..Len(cs) |-> ChunkToRow(cs[k])]

Zeros(n) == [i \in 1..n |-> 0]

\* rows serialized back to back: row k at &mut buf[(k-1) * SIZE_IN_BYTES..]
RECURSIVE SerializeAll(_, _, _)
SerializeAll(rs, k, b) ==
    IF k > Len(rs) THEN b
    ELSE LET off  == (k - 1) * SIZE_IN_BYTES
             tail == Serialize(rs[k], SliceFrom(b, off))
         IN  SerializeAll(rs, k + 1, SubSeq(b, 1, off) \o tail)

NoRow == [mk_shares |-> <<<<>>, <<>>>>, is_trigger_bit |-> <<0, 0>>,
          breakdown_key |-> <<0, 0>>, trigger_value |-> <<0, 0>>]

\* the share pairs the serde inputs are drawn from
MatchKeySamples ==
    { <<ToBits(12345, MATCHKEY_BITS), ToBits(68362, MATCHKEY_BITS)>>,
      <<[i \in 1..MATCHKEY_BITS |-> 1], [i \in 1..MATCHKEY_BITS |-> IF i \in {9, MATCHKEY_BITS} THEN 1 ELSE 0]>> }
TriggerBitSamples == { <<1, 0>>, <<17, 15>> }
BreakdownKeySamples == { <<2, 30>>, <<9, 22>> }
TriggerValueSamples == { <<5, 3>>, <<28, 11>> }

\* no sort call is running
SortIdle ==
    /\ sort_pc = "idle"
    /\ sort_input = <<>>
    /\ sort_sorted_by_aggregation_bit = <<>>
    /\ sort_output = <<>>

\* no reshare call is running
ReshareIdle ==
    /\ rs_call = [kind |-> "none"]
    /\ rs_pc = <<"idle", "idle", "idle">>
    /\ rs_wire = {}
    /\ rs_outputs = <<>>
    /\ rs_completed = <<>>
    /\ rs_delivered = {}
    /\ rs_result = <<>>

\* no channel is open
RecvIdle ==
    /\ rc_inner = "none"
    /\ rc_streams = "empty"
    /\ rc_stream = <<>>
    /\ rc_stream_waker = FALSE
    /\ rc_woken = FALSE
    /\ rc_unsent = {}
    /\ rc_table = {}
    /\ rc_recv = <<>>
    /\ rc_yielded = <<>>

\* no query is run by the three helpers side by side
LockIdle ==
    /\ lk_rows = <<>>
    /\ lk_pc = <<>>
    /\ lk_pending = <<>>
    /\ lk_issued = <<>>
    /\ lk_wire = {}

\* no helper process is started
HelperIdle ==
    /\ hp_pc = "idle"
    /\ hp_identity = 0
    /\ hp_processor_identities = <<>>
    /\ hp_server = "none"
    /\ hp_query = "none"
    /\ hp_handled = 0
    /\ hp_exit = -1

\* no unit is run on its own
UnitsIdle == SortIdle /\ ReshareIdle /\ RecvIdle /\ LockIdle /\ HelperIdle

\* no ipa query is running
IpaIdle ==
    /\ ipc = "idle"
    /\ prss = 0
    /\ mk_bits = 0
    /\ input_rows = <<>>
    /\ per_user_credit_cap = 0
    /\ max_breakdown_key = 0
    /\ converted_shares = <<>>
    /\ sort_permutation = <<>>
    /\ sorted_rows = <<>>
    /\ helper_bits = <<>>
    /\ attribution_input_rows = <<>>
    /\ accumulated_credits = <<>>
    /\ user_capped_credits = <<>>
    /\ result = <<>>

SerdeRowSamples ==
    { [mk_shares |-> m, is_trigger_bit |-> t, breakdown_key |-> b, trigger_value |-> v] :
        m \in MatchKeySamples, t \in TriggerBitSamples,
        b \in BreakdownKeySamples, v \in TriggerValueSamples }

SerdeInit ==
    /\ spc = "start"
    /\ \E n \in 1..SerdeMaxRows : rows \in [1..n -> SerdeRowSamples]
    /\ buf = <<>>
    /\ parsed = <<>>
    /\ single = NoRow
    /\ outcome = "none"
    /\ IpaIdle
    /\ UnitsIdle

\* tests::serde_internal: a zeroed buffer of N * SIZE_IN_BYTES, each row serialized in turn
SerializeRows ==
    /\ spc = "start"
    /\ buf' = SerializeAll(rows, 1, Zeros(Len(rows) * SIZE_IN_BYTES))
    /\ spc' = "serialized"
    /\ outcome' = "ok"
    /\ UNCHANGED <<rows, parsed, single>>
    /\ UNCHANGED <<ipaVars, unitVars>>

\* the byte buffer a caller hands over: the serialized rows, or only their first n bytes
ReceiveInput(n) ==
    /\ spc = "serialized"
    /\ buf' = SubSeq(buf, 1, n)
    /\ spc' = "input"
    /\ outcome' = "none"
    /\ UNCHANGED <<rows, parsed, single>>
    /\ UNCHANGED <<ipaVars, unitVars>>

\* from_byte_slice without its up-front assertion: whole chunks are yielded first
FromByteSliceUnchecked ==
    /\ spc = "input"
    /\ outcome' = IF Len(buf) % SIZE_IN_BYTES # 0
                  THEN "panic: input is not aligned" ELSE "ok"
    /\ parsed' = FromByteSliceRows(buf)
    /\ spc' = "from_byte_slice"
    /\ UNCHANGED <<rows, buf, single>>
    /\ UNCHANGED <<ipaVars, unitVars>>

\* IPAInputRow::from_byte_slice(buf).collect()
FromByteSlice ==
    /\ spc = "input"
    /\ IF Len(buf) % SIZE_IN_BYTES # 0
       THEN /\ outcome' = "panic: input is not aligned"
            /\ parsed' = <<>>
       ELSE /\ outcome' = "ok"
            /\ parsed' = FromByteSliceRows(buf)
    /\ spc' = "from_byte_slice"
    /\ UNCHANGED <<rows, buf, single>>
    /\ UNCHANGED <<ipaVars, unitVars>>

\* IPAInputRow::deserialize(buf): todo!()
Deserialize ==
    /\ spc = "input"
    /\ Len(buf) = SIZE_IN_BYTES
    /\ outcome' = "panic: not yet implemented"
    /\ spc' = "deserialize"
    /\ UNCHANGED <<rows, buf, parsed, single>>
    /\ UNCHANGED <<ipaVars, unitVars>>

SerdeNext ==
    \/ SerializeRows
    \/ \E n \in 0..(SerdeMaxRows * SIZE_IN_BYTES) : n <= Len(buf) /\ ReceiveInput(n)
    \/ FromByteSlice
    \/ Deserialize

SpecSerde == SerdeInit /\ [][SerdeNext]_vars

----------------------------------------------------------------------------
(* Replicated secret sharing among the three helpers *)

Helpers == 1..3

\* the sequence << F(1), ..., F(n) >>
Tabulate(n, F(_)) == SubSeq([i \in 1..n |-> F(i)], 1, n)

\* one value per helper
PerHelper(F(_)) == Tabulate(3, F)

\* the peer to the right: this helper's right share is that peer's left share
RightOf(h) == (h % 3) + 1

\* the replicated sharing of x with summands r1, r2, x - r1 - r2:
\* helper h holds <<left, right>>
ShareOf(x, r1, r2) ==
    LET s == << r1 % PRIME, r2 % PRIME, (x - r1 - r2) % PRIME >>
        held(h) == << s[h], s[RightOf(h)] >>
    IN  PerHelper(held)

\* reconstruction: the sum of the three left shares
Reconstruct(sh) == (sh[1][1] + sh[2][1] + sh[3][1]) % PRIME

\* Replicated::ZERO, held by every helper
ReplicatedZero == << <<0, 0>>, <<0, 0>>, <<0, 0>> >>

XorBits(a, b) == LET x(i) == (a[i] + b[i]) % 2 IN Tabulate(Len(a), x)

\* the XOR-replicated sharing of a bit array
XorShareOf(x, r1, r2) ==
    LET s == << r1, r2, XorBits(XorBits(x, r1), r2) >>
        held(h) == << s[h], s[RightOf(h)] >>
    IN  PerHelper(held)

XorReconstruct(sh) == XorBits(XorBits(sh[1][1], sh[2][1]), sh[3][1])

\* the value PRSS yields under one step path for one record (k-th draw)
Prss(step, record, k) ==
    (prss * (3 * step + 2 * record + k + 1) + 5 * step + record + 2 * k) % PRIME

\* field f of row i as the helpers jointly hold it
Joint(rs, i, f) == << rs[1][i][f], rs[2][i][f], rs[3][i][f] >>

\* the cleartext of field f of row i
Val(rs, i, f) == Reconstruct(Joint(rs, i, f))

\* each helper's vector of rows, row i being the jointly held record joint[i]
Distribute(joint) ==
    LET view(h) == LET row(i) == [f \in DOMAIN joint[i] |-> joint[i][f][h]]
                   IN  Tabulate(Len(joint), row)
    IN  PerHelper(view)

\* each helper's vector of shares, share i being the jointly held joint[i]
DistributeShares(joint) ==
    LET view(h) == LET share(i) == joint[i][h] IN Tabulate(Len(joint), share)
    IN  PerHelper(view)

\* each helper's view of a matrix of jointly held shares
DistributeBits(joint) ==
    LET view(h) == LET line(a) == LET cell(b) == joint[a][b][h]
                                  IN  Tabulate(Len(joint[a]), cell)
                   IN  Tabulate(Len(joint), line)
    IN  PerHelper(view)

\* number of rows every helper holds
NumRows(rs) == Len(rs[1])

----------------------------------------------------------------------------
(* Steps of ipa and the segment each narrows the context with *)

StepSegment ==
    [ModulusConversionForMatchKeys   |-> "mod_conv_match_key",
     GenSortPermutationFromMatchKeys |-> "gen_sort_permutation_from_match_keys",
     ApplySortPermutation            |-> "apply_sort_permutation",
     ComputeHelperBits               |-> "compute_helper_bits",
     AccumulateCredit                |-> "accumulate_credit",
     PerformUserCapping              |-> "user_capping",
     AggregateCredit                 |-> "aggregate_credit"]

\* the order ipa runs its steps in; a step's position keys its PRSS draws
StepOrder ==
    << "mod_conv_match_key", "gen_sort_permutation_from_match_keys",
       "apply_sort_permutation", "compute_helper_bits", "accumulate_credit",
       "user_capping", "aggregate_credit" >>

StepIndex(segment) == CHOOSE k \in 1..Len(StepOrder) : StepOrder[k] = segment

IPAInputRowResharableStepClash ==
    [MatchKeyShares |-> "match_key_shares",
     TriggerBit     |-> "is_trigger_bit",
     BreakdownKey   |-> "breakdown_key",
     TriggerValue   |-> "breakdown_key"]

\* segments IPAModulusConvertedInputRow::reshare narrows with
IPAInputRowResharableStep ==
    [MatchKeyShares |-> "match_key_shares",
     TriggerBit     |-> "is_trigger_bit",
     BreakdownKey   |-> "breakdown_key",
     TriggerValue   |-> "trigger_value"]

ResharableIndex ==
    [match_key_shares |-> 1, is_trigger_bit |-> 2, breakdown_key |-> 3, trigger_value |-> 4]

----------------------------------------------------------------------------
(* Test inputs: cleartext records and their sharing (IPAInputTestRow) *)

\* parameters of tests::semi_honest
PER_USER_CAP == 3
MAX_BREAKDOWN_KEY == 3
NUM_MULTI_BITS == 3

\* test_cases::Simple: match key, is_trigger, breakdown_key, trigger_value
SimpleRecords ==
    << [match_key |-> 12345, is_trigger_bit |-> 0, breakdown_key |-> 1, trigger_value |-> 0],
       [match_key |-> 12345, is_trigger_bit |-> 0, breakdown_key |-> 2, trigger_value |-> 0],
       [match_key |-> 68362, is_trigger_bit |-> 0, breakdown_key |-> 1, trigger_value |-> 0],
       [match_key |-> 12345, is_trigger_bit |-> 1, breakdown_key |-> 0, trigger_value |-> 5],
       [match_key |-> 68362, is_trigger_bit |-> 1, breakdown_key |-> 0, trigger_value |-> 2] >>

\* EXPECTED of tests::semi_honest: breakdown_key, credit
SimpleExpected == << <<0, 0>>, <<1, 2>>, <<2, 3>> >>

\* the values the general inputs are drawn from
MatchKeyValues == {0, 1}
BreakdownKeyValues == {0, 1}
TriggerValues == {1}
CreditCaps == {2, 3}
MaxBreakdownKeys == {2}
PrssSeeds == {1}
\* B::BITS of the small bit array the general inputs use
SmallBits == 2

\* a source event carries a breakdown key and no value; a trigger event carries a value
EventRecords ==
    { [match_key |-> m, is_trigger_bit |-> 0, breakdown_key |-> b, trigger_value |-> 0] :
        m \in MatchKeyValues, b \in BreakdownKeyValues }
    \cup
    { [match_key |-> m, is_trigger_bit |-> 1, breakdown_key |-> b, trigger_value |-> v] :
        m \in MatchKeyValues, b \in BreakdownKeyValues, v \in TriggerValues }

\* IntoShares for a vector of records: every helper's input_rows
ShareRecords(records, nbits, seed) ==
    LET R(i, k) == (seed * (2 * i + k + 1) + 3 * i + k) % PRIME
        J(i) ==
          [mk_shares      |-> XorShareOf(ToBits(records[i].match_key, nbits),
                                         ToBits(R(i, 1), nbits), ToBits(R(i, 2), nbits)),
           is_trigger_bit |-> ShareOf(records[i].is_trigger_bit, R(i, 3), R(i, 4)),
           breakdown_key  |-> ShareOf(records[i].breakdown_key, R(i, 5), R(i, 6)),
           trigger_value  |-> ShareOf(records[i].trigger_value, R(i, 7), R(i, 8))]
    IN  Distribute(Tabulate(Len(records), J))

\* the match key (as an integer) and the fields of input row i, in the clear
InputRecord(i) ==
    [match_key      |-> BitsValue(XorReconstruct(Joint(input_rows, i, "mk_shares"))),
     is_trigger_bit |-> Val(input_rows, i, "is_trigger_bit"),
     breakdown_key  |-> Val(input_rows, i, "breakdown_key"),
     trigger_value  |-> Val(input_rows, i, "trigger_value")]

SerdeIdle ==
    /\ spc = "idle"
    /\ rows = <<>>
    /\ buf = <<>>
    /\ parsed = <<>>
    /\ single = NoRow
    /\ outcome = "none"

IpaQueryStart(records, nbits, cap, maxbk, seed) ==
    /\ ipc = "start"
    /\ prss = seed
    /\ mk_bits = nbits
    /\ input_rows = ShareRecords(records, nbits, seed)
    /\ per_user_credit_cap = cap
    /\ max_breakdown_key = maxbk
    /\ converted_shares = <<>>
    /\ sort_permutation = <<>>
    /\ sorted_rows = <<>>
    /\ helper_bits = <<>>
    /\ attribution_input_rows = <<>>
    /\ accumulated_credits = <<>>
    /\ user_capped_credits = <<>>
    /\ result = <<>>

\* tests::semi_honest on test_cases::Simple, or a query over any small input
IpaInit ==
    /\ SerdeIdle
    /\ UnitsIdle
    /\ \/ \E seed \in PrssSeeds :
            IpaQueryStart(SimpleRecords, MATCHKEY_BITS, PER_USER_CAP, MAX_BREAKDOWN_KEY, seed)
       \/ \E n \in 0..MaxRows, seed \in PrssSeeds, cap \in CreditCaps, maxbk \in MaxBreakdownKeys :
            \E records \in [1..n -> EventRecords] :
                IpaQueryStart(records, SmallBits, cap, maxbk, seed)

----------------------------------------------------------------------------
(* Sub-protocols ipa calls *)

Min(a, b) == IF a < b THEN a ELSE b

RECURSIVE SumSeq(_)
SumSeq(xs) == IF xs = <<>> THEN 0 ELSE Head(xs) + SumSeq(Tail(xs))

\* rows of bits into bits of rows (and back)
Transpose(input) ==
    LET bit_length == Len(input[1])
        column(i) == LET cell(b) == input[b][i] IN Tabulate(Len(input), cell)
    IN  Tabulate(bit_length, column)

\* convert_all_bits: bit-major replicated shares of every bit of every match key
ConvertAllBits(rs, nbits, step) ==
    LET n == NumRows(rs)
        mk(i) == XorReconstruct(Joint(rs, i, "mk_shares"))
        mks == Tabulate(n, mk)
        bitrow(b) == LET cell(i) == ShareOf(mks[i][b], Prss(step, i - 1, 2 * b),
                                            Prss(step, i - 1, 2 * b + 1))
                     IN  Tabulate(n, cell)
    IN  DistributeBits(Tabulate(nbits, bitrow))

\* the bits of key i, in the clear, of bit-major shares
KeyBits(shares, i) ==
    LET bit(b) == Reconstruct(<< shares[1][b][i], shares[2][b][i], shares[3][b][i] >>)
    IN  Tabulate(Len(shares[1]), bit)

\* destination of every element under a stable sort by keys
StableSortPerm(keys) ==
    LET dest(i) == Cardinality({j \in 1..Len(keys) :
                       keys[j] < keys[i] \/ (keys[j] = keys[i] /\ j < i)}) + 1
    IN  Tabulate(Len(keys), dest)

\* the inverse of a permutation
InversePerm(perm) ==
    LET src(p) == CHOOSE j \in 1..Len(perm) : perm[j] = p IN Tabulate(Len(perm), src)

\* the order after radix-sorting windows w, w+1, ... of multi_bits bits each,
\* least significant window first: ord[p] is the row standing at position p
RECURSIVE RadixOrder(_, _, _, _, _)
RadixOrder(keybits, nbits, multi_bits, w, ord) ==
    IF w * multi_bits >= nbits THEN ord
    ELSE LET lo == w * multi_bits + 1
             hi == Min((w + 1) * multi_bits, nbits)
             key(j) == BitsValue(SubSeq(keybits[ord[j]], lo, hi))
             inv == InversePerm(StableSortPerm(Tabulate(Len(ord), key)))
             moved(p) == ord[inv[p]]
         IN  RadixOrder(keybits, nbits, multi_bits, w + 1, Tabulate(Len(ord), moved))

\* the joint random shuffle of n rows drawn under a step
ShufflePerm(n, step) ==
    LET to(i) == ((i - 1 + Prss(step, 0, 0)) % n) + 1 IN Tabulate(n, to)

\* generate_permutation_and_reveal_shuffled over bit-major key shares: the
\* permutation of the radix sort over the key's nbits bits, multi_bits bits a
\* round, revealed after a joint random shuffle
GeneratePermutationAndRevealShuffled(shares, nbits, multi_bits, step) ==
    LET n == Len(shares[1][1])
        kb(i) == KeyBits(shares, i)
        keybits == Tabulate(n, kb)
        id(i) == i
        ord == RadixOrder(keybits, nbits, multi_bits, 0, Tabulate(n, id))
        sigma == InversePerm(ord)
        rhoInv == InversePerm(ShufflePerm(n, step))
        rev(j) == sigma[rhoInv[j]]
    IN  [revealed |-> Tabulate(n, rev), randoms_for_shuffle |-> ShufflePerm(n, step)]

\* apply_sort_permutation: the source index of the row that ends at position p,
\* rows being shuffled by randoms_for_shuffle and then moved by the revealed permutation
SortedSource(perm, p) ==
    CHOOSE i \in 1..Len(perm.revealed) : perm.revealed[perm.randoms_for_shuffle[i]] = p

\* reshare of one replicated value under a narrowed step: fresh shares of the same secret
ReshareValue(sh, step, record, k) ==
    ShareOf(Reconstruct(sh), Prss(step, record, 2 * k), Prss(step, record, 2 * k + 1))

\* lines 177-183: the row built from the reshared match key and outputs.remove(0), thrice
ModulusConvertedRowOf(mk_shares, outputs) ==
    [mk_shares      |-> mk_shares,
     is_trigger_bit |-> Head(outputs),
     breakdown_key  |-> Head(Tail(outputs)),
     trigger_value  |-> Head(Tail(Tail(outputs)))]

\* IPAModulusConvertedInputRow::reshare on row i of each helper's vector
ModulusConvertedRowReshare(rs, i, step, record_id) ==
    LET nb == Len(rs[1][i].mk_shares)
        mk(b) == ReshareValue(<< rs[1][i].mk_shares[b], rs[2][i].mk_shares[b],
                                 rs[3][i].mk_shares[b] >>, step, record_id,
                              10 * ResharableIndex[IPAInputRowResharableStep.MatchKeyShares] + b)
        mks == Tabulate(nb, mk)
        f_mk_shares == LET view(h) == LET x(b) == mks[b][h] IN Tabulate(nb, x)
                       IN  PerHelper(view)
        f_is_trigger_bit ==
            ReshareValue(Joint(rs, i, "is_trigger_bit"), step, record_id,
                         ResharableIndex[IPAInputRowResharableStep.TriggerBit])
        f_breakdown_key ==
            ReshareValue(Joint(rs, i, "breakdown_key"), step, record_id,
                         ResharableIndex[IPAInputRowResharableStep.BreakdownKey])
        f_trigger_value ==
            ReshareValue(Joint(rs, i, "trigger_value"), step, record_id,
                         ResharableIndex[IPAInputRowResharableStep.TriggerValue])
    IN  ModulusConvertedRowOf(
            f_mk_shares, << f_is_trigger_bit, f_breakdown_key, f_trigger_value >>)

\* bitwise_equal: a share of 1 iff the two vectors of bit shares hold the same bits
BitwiseEqual(rs, i, j, step, record_id) ==
    LET bit(r, b) == Reconstruct(<< rs[1][r].mk_shares[b], rs[2][r].mk_shares[b],
                                    rs[3][r].mk_shares[b] >>)
        eq == \A b \in 1..Len(rs[1][i].mk_shares) : bit(i, b) = bit(j, b)
    IN  ShareOf(IF eq THEN 1 ELSE 0, Prss(step, record_id, 1), Prss(step, record_id, 2))

\* first row of the user's block row i lies in: the last row at or before i whose helper bit is 0
BlockStart(hb, i) ==
    IF \E j \in 1..i : hb[j] = 0
    THEN CHOOSE j \in 1..i : hb[j] = 0 /\ \A k \in (j + 1)..i : hb[k] # 0
    ELSE 1

\* accumulate_credit: the running sum of trigger values within the user's block,
\* written onto trigger rows; source rows receive 0
AccumulateCredit(rs, step) ==
    LET n  == NumRows(rs)
        hbv(i) == Val(rs, i, "helper_bit")
        tv(i)  == Val(rs, i, "is_trigger_bit")
        cv(i)  == Val(rs, i, "credit")
        hb == Tabulate(n, hbv)
        t  == Tabulate(n, tv)
        c  == Tabulate(n, cv)
        value(i) == t[i] * c[i]
        values == Tabulate(n, value)
        running(i) == SumSeq(SubSeq(values, BlockStart(hb, i), i))
        J(i) == [is_trigger_bit |-> Joint(rs, i, "is_trigger_bit"),
                 helper_bit     |-> Joint(rs, i, "helper_bit"),
                 breakdown_key  |-> Joint(rs, i, "breakdown_key"),
                 credit         |-> ShareOf((t[i] * running(i)) % PRIME,
                                            Prss(step, i - 1, 1), Prss(step, i - 1, 2))]
    IN  Distribute(Tabulate(n, J))

\* the capped credits of a block scanned in order: cum is the cumulative credit so far
RECURSIVE CapScan(_, _, _)
CapScan(credits, cap, cum) ==
    IF credits = <<>> THEN <<>>
    ELSE LET c == Head(credits)
             kept == IF cum + c <= cap THEN c
                     ELSE IF cum <= cap THEN cap - cum
                     ELSE 0
         IN  <<kept>> \o CapScan(Tail(credits), cap, cum + c)

\* credit_capping: every user's block capped at cap
CreditCapping(rs, cap, step) ==
    LET n  == NumRows(rs)
        hbv(i) == Val(rs, i, "helper_bit")
        cv(i)  == Val(rs, i, "credit")
        hb == Tabulate(n, hbv)
        c  == Tabulate(n, cv)
        capped(i) == LET s == BlockStart(hb, i)
                     IN  CapScan(SubSeq(c, s, i), cap, 0)[i - s + 1]
        J(i) == [breakdown_key |-> Joint(rs, i, "breakdown_key"),
                 credit        |-> ShareOf(capped(i) % PRIME,
                                           Prss(step, i - 1, 1), Prss(step, i - 1, 2))]
    IN  Distribute(Tabulate(n, J))

----------------------------------------------------------------------------
(* aggregate_credit and its sorts *)

\* bits of F::Integer for Fp31
FIELD_INTEGER_BITS == 8

AggregateStepSegmentShared ==
    [BitDecomposeBreakdownKey            |-> "bit_decompose_breakdown_key",
     GeneratePermutationByBreakdownKey   |-> "generate_permutation_by_breakdown_key",
     ApplyPermutationOnBreakdownKey      |-> "apply_permutation_by_breakdown_key",
     GeneratePermutationByAttributionBit |-> "apply_permutation_on_attribution_bit",
     ApplyPermutationOnAttributionBit    |-> "apply_permutation_on_attribution_bit"]

\* segments of the aggregate-credit sort steps
AggregateStepSegment ==
    [BitDecomposeBreakdownKey            |-> "bit_decompose_breakdown_key",
     GeneratePermutationByBreakdownKey   |-> "generate_permutation_by_breakdown_key",
     ApplyPermutationOnBreakdownKey      |-> "apply_permutation_by_breakdown_key",
     GeneratePermutationByAttributionBit |-> "apply_permutation_by_attribution_bit",
     ApplyPermutationOnAttributionBit    |-> "apply_permutation_on_attribution_bit"]

\* position of an aggregate-credit sort step under its parent step, keying its PRSS draws
AggregateStepIndex ==
    [BitDecomposeBreakdownKey            |-> 1,
     GeneratePermutationByBreakdownKey   |-> 2,
     ApplyPermutationOnBreakdownKey      |-> 3,
     GeneratePermutationByAttributionBit |-> 4,
     ApplyPermutationOnAttributionBit    |-> 5]

Narrow(step, sub) == 10 * step + sub

CappedCreditsRowOfRotated(outputs) ==
    [helper_bit      |-> Head(outputs),
     aggregation_bit |-> Head(Tail(Tail(outputs))),
     breakdown_key   |-> Head(Tail(Tail(Tail(outputs)))),
     credit          |-> Head(Tail(outputs))]

\* lines 44-50: the row built from outputs.remove(0), four times
CappedCreditsRowOf(outputs) ==
    [helper_bit      |-> Head(outputs),
     aggregation_bit |-> Head(Tail(outputs)),
     breakdown_key   |-> Head(Tail(Tail(outputs))),
     credit          |-> Head(Tail(Tail(Tail(outputs))))]

\* CappedCreditsWithAggregationBit::reshare on row i of each helper's vector
CappedCreditsReshare(rs, i, step, record_id) ==
    LET f_helper_bit      == ReshareValue(Joint(rs, i, "helper_bit"), step, record_id, 1)
        f_aggregation_bit == ReshareValue(Joint(rs, i, "aggregation_bit"), step, record_id, 2)
        f_breakdown_key   == ReshareValue(Joint(rs, i, "breakdown_key"), step, record_id, 3)
        f_value           == ReshareValue(Joint(rs, i, "credit"), step, record_id, 4)
    IN  CappedCreditsRowOf(<< f_helper_bit, f_aggregation_bit, f_breakdown_key, f_value >>)

\* apply_sort_permutation over CappedCreditsWithAggregationBit rows
ApplySortPermutationCapped(rs, perm, step) ==
    LET J(p) == CappedCreditsReshare(rs, SortedSource(perm, p), step, SortedSource(perm, p) - 1)
    IN  Distribute(Tabulate(NumRows(rs), J))

SortByAggregationBitByHelperBit(rs, step) ==
    LET bits_of(h) == LET x(i) == rs[h][i].helper_bit
                      IN  << Tabulate(NumRows(rs), x) >>
        aggregation_bits == PerHelper(bits_of)
        perm == GeneratePermutationAndRevealShuffled(
                    aggregation_bits, 1, 1,
                    Narrow(step, AggregateStepIndex.GeneratePermutationByAttributionBit))
    IN  ApplySortPermutationCapped(
            rs, perm, Narrow(step, AggregateStepIndex.ApplyPermutationOnAttributionBit))

\* sort_by_aggregation_bit
SortByAggregationBit(rs, step) ==
    LET bits_of(h) == LET x(i) == rs[h][i].aggregation_bit
                      IN  << Tabulate(NumRows(rs), x) >>
        aggregation_bits == PerHelper(bits_of)
        perm == GeneratePermutationAndRevealShuffled(
                    aggregation_bits, 1, 1,
                    Narrow(step, AggregateStepIndex.GeneratePermutationByAttributionBit))
    IN  ApplySortPermutationCapped(
            rs, perm, Narrow(step, AggregateStepIndex.ApplyPermutationOnAttributionBit))

\* bit_decompose_breakdown_key: row i, under record id i, to the bit shares of its breakdown key
BitDecomposeBreakdownKey(rs, step) ==
    LET n == NumRows(rs)
        row(i) == LET bits == ToBits(Val(rs, i, "breakdown_key"), FIELD_INTEGER_BITS)
                      cell(b) == ShareOf(bits[b], Prss(step, i - 1, 2 * b),
                                         Prss(step, i - 1, 2 * b + 1))
                  IN  Tabulate(FIELD_INTEGER_BITS, cell)
    IN  DistributeBits(Tabulate(n, row))

\* lines 117-123: the bit-major shares of the breakdown keys' bits
BreakdownKeyBits(sorted_by_aggregation_bit, step) ==
    LET tr(h) == Transpose(BitDecomposeBreakdownKey(
                               sorted_by_aggregation_bit,
                               Narrow(step, AggregateStepIndex.BitDecomposeBreakdownKey))[h])
    IN  PerHelper(tr)

\* lines 117-132: the second sort, of the rows the first sort produced
SortByBreakdownKey(sorted_by_aggregation_bit, step) ==
    ApplySortPermutationCapped(
        sorted_by_aggregation_bit,
        GeneratePermutationAndRevealShuffled(
            BreakdownKeyBits(sorted_by_aggregation_bit, step), FIELD_INTEGER_BITS, 1,
            Narrow(step, AggregateStepIndex.GeneratePermutationByBreakdownKey)),
        Narrow(step, AggregateStepIndex.ApplyPermutationOnBreakdownKey))

\* sort_by_aggregation_bit_and_breakdown_key
SortByAggregationBitAndBreakdownKey(rs, step) ==
    SortByBreakdownKey(SortByAggregationBit(rs, step), step)

\* the input of the aggregation sort: real rows get helper_bit 1 and aggregation_bit 1;
\* one row per breakdown key in [0, max_key) is appended with every other field 0
AddAggregationBitsAndBreakdownKeys(rs, max_key) ==
    LET n == NumRows(rs)
        J(i) == IF i <= n
                THEN [helper_bit      |-> ShareOf(1, 0, 0),
                      aggregation_bit |-> ShareOf(1, 0, 0),
                      breakdown_key   |-> Joint(rs, i, "breakdown_key"),
                      credit          |-> Joint(rs, i, "credit")]
                ELSE [helper_bit      |-> ReplicatedZero,
                      aggregation_bit |-> ReplicatedZero,
                      breakdown_key   |-> ShareOf((i - n - 1) % PRIME, 0, 0),
                      credit          |-> ReplicatedZero]
    IN  Distribute(Tabulate(n + max_key, J))

\* one output row per breakdown key in [0, max_key), holding the total credit of
\* the sorted rows with that key
CreditPerBreakdownKey(sorted, max_key, step) ==
    LET n == NumRows(sorted)
        term(i) == << Val(sorted, i, "breakdown_key"), Val(sorted, i, "credit") >>
        terms == Tabulate(n, term)
        total(k) == LET x(i) == IF terms[i][1] = k % PRIME THEN terms[i][2] ELSE 0
                    IN  SumSeq(Tabulate(n, x)) % PRIME
        J(p) == [breakdown_key |-> ShareOf((p - 1) % PRIME, Prss(step, p - 1, 1), Prss(step, p - 1, 2)),
                 credit        |-> ShareOf(total(p - 1), Prss(step, p - 1, 3), Prss(step, p - 1, 4))]
    IN  Distribute(Tabulate(max_key, J))

\* aggregate_credit: the rows and one extra row per breakdown key, sorted by
\* aggregation bit and breakdown key, then totalled per breakdown key
AggregateCredit(rs, max_key, multi_bits, step) ==
    CreditPerBreakdownKey(
        SortByAggregationBitAndBreakdownKey(AddAggregationBitsAndBreakdownKeys(rs, max_key), step),
        max_key, step)

----------------------------------------------------------------------------
(* ipa, stage by stage; every helper runs the same stage over its own shares *)

\* lines 198-208: collect mk_shares, convert_all_bits_local, convert_all_bits
ModulusConversionForMatchKeys ==
    /\ ipc = "start"
    /\ converted_shares' =
          ConvertAllBits(input_rows, mk_bits, StepIndex(StepSegment.ModulusConversionForMatchKeys))
    /\ ipc' = StepSegment.ModulusConversionForMatchKeys
    /\ UNCHANGED <<prss, mk_bits, input_rows, per_user_credit_cap, max_breakdown_key,
                   sort_permutation, sorted_rows, helper_bits, attribution_input_rows,
                   accumulated_credits, user_capped_credits, result>>
    /\ UNCHANGED <<serdeVars, unitVars>>

\* lines 209-216: generate_permutation_and_reveal_shuffled over the converted match keys
GenSortPermutationFromMatchKeys ==
    /\ ipc = StepSegment.ModulusConversionForMatchKeys
    /\ sort_permutation' =
          IF NumRows(input_rows) = 0
          THEN [revealed |-> <<>>, randoms_for_shuffle |-> <<>>]
          ELSE GeneratePermutationAndRevealShuffled(
                   converted_shares, mk_bits, NUM_MULTI_BITS,
                   StepIndex(StepSegment.GenSortPermutationFromMatchKeys))
    /\ ipc' = StepSegment.GenSortPermutationFromMatchKeys
    /\ UNCHANGED <<prss, mk_bits, input_rows, per_user_credit_cap, max_breakdown_key,
                   converted_shares, sorted_rows, helper_bits, attribution_input_rows,
                   accumulated_credits, user_capped_credits, result>>
    /\ UNCHANGED <<serdeVars, unitVars>>

\* lines 217-228: transpose, and zip the input rows with their converted match keys
CombinedMatchKeysAndSidecarDataMisaligned ==
    LET view(h) ==
            LET transposed == Transpose(converted_shares[h])
                n == Min(Len(input_rows[h]), Len(transposed))
                row(i) == [mk_shares      |-> transposed[i],
                           is_trigger_bit |-> input_rows[h][n + 1 - i].is_trigger_bit,
                           breakdown_key  |-> input_rows[h][n + 1 - i].breakdown_key,
                           trigger_value  |-> input_rows[h][n + 1 - i].trigger_value]
            IN  Tabulate(n, row)
    IN  PerHelper(view)

CombinedMatchKeysAndSidecarData ==
    LET view(h) ==
            LET transposed == Transpose(converted_shares[h])
                row(i) == [mk_shares      |-> transposed[i],
                           is_trigger_bit |-> input_rows[h][i].is_trigger_bit,
                           breakdown_key  |-> input_rows[h][i].breakdown_key,
                           trigger_value  |-> input_rows[h][i].trigger_value]
            IN  Tabulate(Min(Len(input_rows[h]), Len(transposed)), row)
    IN  PerHelper(view)

\* apply_sort_permutation over IPAModulusConvertedInputRow rows
ApplySortPermutationRows(rs, perm, step) ==
    LET J(p) == ModulusConvertedRowReshare(rs, SortedSource(perm, p), step,
                                           SortedSource(perm, p) - 1)
    IN  Distribute(Tabulate(NumRows(rs), J))

\* lines 217-236: combine, then apply_sort_permutation
ApplySortPermutation ==
    /\ ipc = StepSegment.GenSortPermutationFromMatchKeys
    /\ sorted_rows' =
          ApplySortPermutationRows(CombinedMatchKeysAndSidecarData, sort_permutation,
                                   StepIndex(StepSegment.ApplySortPermutation))
    /\ ipc' = StepSegment.ApplySortPermutation
    /\ UNCHANGED <<prss, mk_bits, input_rows, per_user_credit_cap, max_breakdown_key,
                   converted_shares, sort_permutation, helper_bits, attribution_input_rows,
                   accumulated_credits, user_capped_credits, result>>
    /\ UNCHANGED <<serdeVars, unitVars>>

ComputedHelperBitsUnshifted ==
    LET n == NumRows(sorted_rows)
        step == StepIndex(StepSegment.ComputeHelperBits)
        J(k) == BitwiseEqual(sorted_rows, k, k + 1, step, k - 1)
    IN  DistributeShares(Tabulate(IF n = 0 THEN 0 ELSE n - 1, J))

\* lines 238-250: Replicated::ZERO, then bitwise_equal of every adjacent pair,
\* pair (row i, row i+1) under record id i
ComputedHelperBits ==
    LET n == NumRows(sorted_rows)
        step == StepIndex(StepSegment.ComputeHelperBits)
        J(k) == IF k = 1 THEN ReplicatedZero
                ELSE BitwiseEqual(sorted_rows, k - 1, k, step, k - 2)
    IN  DistributeShares(Tabulate(IF n = 0 THEN 1 ELSE n, J))

\* lines 252-259: zip(sorted_rows, helper_bits) into AttributionInputRow
AttributionInputRowsSwapped(hbs) ==
    LET view(h) ==
            LET row(i) == [is_trigger_bit |-> sorted_rows[h][i].is_trigger_bit,
                           helper_bit     |-> hbs[h][i],
                           breakdown_key  |-> sorted_rows[h][i].trigger_value,
                           credit         |-> sorted_rows[h][i].breakdown_key]
            IN  Tabulate(Min(Len(sorted_rows[h]), Len(hbs[h])), row)
    IN  PerHelper(view)

AttributionInputRows(hbs) ==
    LET view(h) ==
            LET row(i) == [is_trigger_bit |-> sorted_rows[h][i].is_trigger_bit,
                           helper_bit     |-> hbs[h][i],
                           breakdown_key  |-> sorted_rows[h][i].breakdown_key,
                           credit         |-> sorted_rows[h][i].trigger_value]
            IN  Tabulate(Min(Len(sorted_rows[h]), Len(hbs[h])), row)
    IN  PerHelper(view)

\* lines 238-259
ComputeHelperBits ==
    /\ ipc = StepSegment.ApplySortPermutation
    /\ helper_bits' = ComputedHelperBits
    /\ attribution_input_rows' = AttributionInputRows(helper_bits')
    /\ ipc' = StepSegment.ComputeHelperBits
    /\ UNCHANGED <<prss, mk_bits, input_rows, per_user_credit_cap, max_breakdown_key,
                   converted_shares, sort_permutation, sorted_rows,
                   accumulated_credits, user_capped_credits, result>>
    /\ UNCHANGED <<serdeVars, unitVars>>

\* lines 261-262
AccumulateCreditStage ==
    /\ ipc = StepSegment.ComputeHelperBits
    /\ accumulated_credits' =
          AccumulateCredit(attribution_input_rows, StepIndex(StepSegment.AccumulateCredit))
    /\ ipc' = StepSegment.AccumulateCredit
    /\ UNCHANGED <<prss, mk_bits, input_rows, per_user_credit_cap, max_breakdown_key,
                   converted_shares, sort_permutation, sorted_rows, helper_bits,
                   attribution_input_rows, user_capped_credits, result>>
    /\ UNCHANGED <<serdeVars, unitVars>>

\* the arguments ipa hands to credit_capping
CreditCappingArgsUncapped == [input |-> accumulated_credits, cap |-> PRIME - 1]

CreditCappingArgs == [input |-> accumulated_credits, cap |-> per_user_credit_cap]

\* lines 264-269
PerformUserCapping ==
    /\ ipc = StepSegment.AccumulateCredit
    /\ user_capped_credits' =
          CreditCapping(CreditCappingArgs.input, CreditCappingArgs.cap,
                        StepIndex(StepSegment.PerformUserCapping))
    /\ ipc' = StepSegment.PerformUserCapping
    /\ UNCHANGED <<prss, mk_bits, input_rows, per_user_credit_cap, max_breakdown_key,
                   converted_shares, sort_permutation, sorted_rows, helper_bits,
                   attribution_input_rows, accumulated_credits, result>>
    /\ UNCHANGED <<serdeVars, unitVars>>

\* the arguments ipa hands to aggregate_credit
AggregateCreditArgsCapForKey ==
    [input |-> user_capped_credits, max_breakdown_key |-> per_user_credit_cap + 1]

AggregateCreditArgsUncapped ==
    [input |-> LET view(h) ==
                       LET row(i) == [breakdown_key |-> accumulated_credits[h][i].breakdown_key,
                                      credit        |-> accumulated_credits[h][i].credit]
                       IN  Tabulate(Len(accumulated_credits[h]), row)
               IN  PerHelper(view),
     max_breakdown_key |-> max_breakdown_key]

AggregateCreditArgsKeyPerRow ==
    [input |-> user_capped_credits, max_breakdown_key |-> NumRows(user_capped_credits)]

AggregateCreditArgsActiveKeys ==
    [input |-> user_capped_credits,
     max_breakdown_key |->
        Cardinality({k \in 1..max_breakdown_key :
                        \E i \in 1..NumRows(user_capped_credits) :
                           Val(user_capped_credits, i, "breakdown_key") >= k - 1})]

AggregateCreditArgs ==
    [input |-> user_capped_credits, max_breakdown_key |-> max_breakdown_key]

\* lines 271-278: the value of aggregate_credit is what ipa returns
AggregateCreditStage ==
    /\ ipc = StepSegment.PerformUserCapping
    /\ result' = AggregateCredit(AggregateCreditArgs.input, AggregateCreditArgs.max_breakdown_key,
                                 NUM_MULTI_BITS, StepIndex(StepSegment.AggregateCredit))
    /\ ipc' = StepSegment.AggregateCredit
    /\ UNCHANGED <<prss, mk_bits, input_rows, per_user_credit_cap, max_breakdown_key,
                   converted_shares, sort_permutation, sorted_rows, helper_bits,
                   attribution_input_rows, accumulated_credits, user_capped_credits>>
    /\ UNCHANGED <<serdeVars, unitVars>>

\* how ipa takes the Result of the sub-protocol run under each segment:
\* .await.unwrap() (lines 207-208, 215-216, 235-236), ? (lines 250, 262, 269),
\* or as its own return value (lines 271-277)
ResultHandling ==
    [mod_conv_match_key                   |-> "unwrap",
     gen_sort_permutation_from_match_keys |-> "unwrap",
     apply_sort_permutation               |-> "unwrap",
     compute_helper_bits                  |-> "?",
     accumulate_credit                    |-> "?",
     user_capping                         |-> "?",
     aggregate_credit                     |-> "return"]

\* where ipa stands when it starts the step of a segment
PositionBefore(segment) ==
    IF StepIndex(segment) = 1 THEN "start" ELSE StepOrder[StepIndex(segment) - 1]

\* the sub-protocol run under a segment returns Err: unwrap panics, ? and the
\* final expression hand the Err to the caller; ipa's locals are dropped
SubProtocolFailsAt(segment) ==
    /\ ipc = PositionBefore(segment)
    /\ ipc' = IF ResultHandling[segment] = "unwrap" THEN "panic" ELSE "Err"
    /\ converted_shares' = <<>>
    /\ sort_permutation' = <<>>
    /\ sorted_rows' = <<>>
    /\ helper_bits' = <<>>
    /\ attribution_input_rows' = <<>>
    /\ accumulated_credits' = <<>>
    /\ user_capped_credits' = <<>>
    /\ UNCHANGED <<prss, mk_bits, input_rows, per_user_credit_cap, max_breakdown_key, result>>
    /\ UNCHANGED <<serdeVars, unitVars>>

SubProtocolFails ==
    \E k \in 1..Len(StepOrder) : SubProtocolFailsAt(StepOrder[k])

IpaNext ==
    \/ ModulusConversionForMatchKeys
    \/ GenSortPermutationFromMatchKeys
    \/ ApplySortPermutation
    \/ ComputeHelperBits
    \/ AccumulateCreditStage
    \/ PerformUserCapping
    \/ AggregateCreditStage
    \/ SubProtocolFails

SpecIpa == IpaInit /\ [][IpaNext]_vars

----------------------------------------------------------------------------
(* sort_by_aggregation_bit_and_breakdown_key called on its own, as tests::sort does *)

\* largest number of rows of a sort call over the general inputs
SortMaxRows == 3

\* RAW_INPUT of tests::sort: helper_bit, breakdown_key, credit, aggregation_bit
RAW_INPUT ==
    << <<1, 3, 0, 1>>, <<1, 4, 0, 1>>, <<1, 4, 18, 1>>, <<1, 0, 0, 1>>, <<1, 0, 0, 1>>,
       <<1, 0, 0, 1>>, <<1, 0, 0, 1>>, <<1, 0, 0, 1>>, <<1, 1, 0, 1>>, <<1, 0, 0, 1>>,
       <<1, 2, 2, 1>>, <<1, 0, 0, 1>>, <<1, 0, 0, 1>>, <<1, 2, 0, 1>>, <<1, 2, 10, 1>>,
       <<1, 0, 0, 1>>, <<1, 0, 0, 1>>, <<1, 5, 6, 1>>, <<1, 0, 0, 1>>,
       <<0, 0, 0, 0>>, <<0, 1, 0, 0>>, <<0, 2, 0, 0>>, <<0, 3, 0, 0>>,
       <<0, 4, 0, 0>>, <<0, 5, 0, 0>>, <<0, 6, 0, 0>>, <<0, 7, 0, 0>> >>

\* EXPECTED of tests::sort
EXPECTED ==
    << <<0, 0, 0, 0>>, <<1, 0, 0, 1>>, <<1, 0, 0, 1>>, <<1, 0, 0, 1>>, <<1, 0, 0, 1>>,
       <<1, 0, 0, 1>>, <<1, 0, 0, 1>>, <<1, 0, 0, 1>>, <<1, 0, 0, 1>>, <<1, 0, 0, 1>>,
       <<1, 0, 0, 1>>, <<1, 0, 0, 1>>,
       <<0, 1, 0, 0>>, <<1, 1, 0, 1>>,
       <<0, 2, 0, 0>>, <<1, 2, 2, 1>>, <<1, 2, 0, 1>>, <<1, 2, 10, 1>>,
       <<0, 3, 0, 0>>, <<1, 3, 0, 1>>,
       <<0, 4, 0, 0>>, <<1, 4, 0, 1>>, <<1, 4, 18, 1>>,
       <<0, 5, 0, 0>>, <<1, 5, 6, 1>>,
       <<0, 6, 0, 0>>,
       <<0, 7, 0, 0>> >>

\* the values the general sort inputs are drawn from
SortHelperBits == {0, 1}
SortBreakdownKeys == {1, 2}
SortAggregationBits == {0, 1}

\* general inputs: n rows told apart by their credit, row i having credit i
SortInputs(n) ==
    { Tabulate(n, LAMBDA i : << f[i][1], f[i][2], i, f[i][3] >>) :
        f \in [1..n -> SortHelperBits \X SortBreakdownKeys \X SortAggregationBits] }

\* IntoShares for AttributionTestInput: helper_bit, breakdown_key, credit, aggregation_bit
ShareAttributionTestInput(input) ==
    LET R(i, k) == (7 * i + 3 * k + 1) % PRIME
        J(i) == [helper_bit      |-> ShareOf(input[i][1], R(i, 1), R(i, 2)),
                 breakdown_key   |-> ShareOf(input[i][2], R(i, 3), R(i, 4)),
                 credit          |-> ShareOf(input[i][3], R(i, 5), R(i, 6)),
                 aggregation_bit |-> ShareOf(input[i][4], R(i, 7), R(i, 8))]
    IN  Distribute(Tabulate(Len(input), J))

\* Reconstruct for AttributionTestInput: row i in the clear
ReconstructAttributionTestInput(rs, i) ==
    << Val(rs, i, "helper_bit"), Val(rs, i, "breakdown_key"),
       Val(rs, i, "credit"), Val(rs, i, "aggregation_bit") >>

\* the step path of the context TestWorld hands to the closure
TestWorldStep == 0

SortInit ==
    /\ SerdeIdle
    /\ IpaIdle
    /\ ReshareIdle
    /\ RecvIdle
    /\ LockIdle
    /\ HelperIdle
    /\ sort_pc = "start"
    /\ \/ sort_input = ShareAttributionTestInput(RAW_INPUT)
       \/ \E n \in 0..SortMaxRows : \E input \in SortInputs(n) :
             sort_input = ShareAttributionTestInput(input)
    /\ sort_sorted_by_aggregation_bit = <<>>
    /\ sort_output = <<>>

\* line 109: the first sort
SortByAggregationBitStage ==
    /\ sort_pc = "start"
    /\ sort_sorted_by_aggregation_bit' = SortByAggregationBit(sort_input, TestWorldStep)
    /\ sort_pc' = "sorted_by_aggregation_bit"
    /\ UNCHANGED <<sort_input, sort_output>>
    /\ UNCHANGED <<serdeVars, ipaVars, reshareVars, recvVars, lockVars, helperVars>>

\* lines 111-132: the second sort, over the rows the first one returned;
\* transpose indexes input[0] (line 73) and panics when there is no row
SortByBreakdownKeyStage ==
    /\ sort_pc = "sorted_by_aggregation_bit"
    /\ IF NumRows(sort_sorted_by_aggregation_bit) = 0
       THEN /\ sort_pc' = "panic"
            /\ sort_output' = <<>>
       ELSE /\ sort_pc' = "sorted"
            /\ sort_output' = SortByBreakdownKey(sort_sorted_by_aggregation_bit, TestWorldStep)
    /\ UNCHANGED <<sort_input, sort_sorted_by_aggregation_bit>>
    /\ UNCHANGED <<serdeVars, ipaVars, reshareVars, recvVars, lockVars, helperVars>>

SortNext ==
    \/ SortByAggregationBitStage
    \/ SortByBreakdownKeyStage

SpecSort == SortInit /\ [][SortNext]_vars

----------------------------------------------------------------------------
(* One composite reshare call: every helper runs reshare(ctx, record_id,
   to_helper) on its shares of the row; the field reshares of a helper run
   concurrently and exchange one message each with the peer *)

\* the peer to the left
LeftOf(h) == RightOf(RightOf(h))

\* segments CappedCreditsWithAggregationBit::reshare narrows with
AttributionResharableStep ==
    [HelperBit      |-> "helper_bit",
     AggregationBit |-> "aggregation_bit",
     BreakdownKey   |-> "breakdown_key",
     Credit         |-> "credit"]

\* an output slot no field reshare has filled yet
NoShare == <<>>

\* lines 30-44 of aggregate_credit.rs: the field reshares in the order they
\* are handed to try_join_all, each with the segment it narrows with
CappedCreditsFutures(row) ==
    << [field |-> "helper_bit",      path |-> << AttributionResharableStep.HelperBit >>,
        input |-> row.helper_bit],
       [field |-> "aggregation_bit", path |-> << AttributionResharableStep.AggregationBit >>,
        input |-> row.aggregation_bit],
       [field |-> "breakdown_key",   path |-> << AttributionResharableStep.BreakdownKey >>,
        input |-> row.breakdown_key],
       [field |-> "credit",          path |-> << AttributionResharableStep.Credit >>,
        input |-> row.credit] >>

\* lines 155-175 of ipa/mod.rs: the reshare of the vector mk_shares (one reshare
\* per element, narrowed by its index), then the three handed to try_join_all
ModulusConvertedFutures(row) ==
    LET mk(b) == [field |-> "mk_shares",
                  path  |-> << IPAInputRowResharableStep.MatchKeyShares, ToString(b - 1) >>,
                  input |-> row.mk_shares[b]]
    IN  Tabulate(Len(row.mk_shares), mk) \o
        << [field |-> "is_trigger_bit", path |-> << IPAInputRowResharableStep.TriggerBit >>,
            input |-> row.is_trigger_bit],
           [field |-> "breakdown_key",  path |-> << IPAInputRowResharableStep.BreakdownKey >>,
            input |-> row.breakdown_key],
           [field |-> "trigger_value",  path |-> << IPAInputRowResharableStep.TriggerValue >>,
            input |-> row.trigger_value] >>

ReshareFutures(call) ==
    IF call.kind = "CappedCreditsWithAggregationBit"
    THEN CappedCreditsFutures(call.row)
    ELSE ModulusConvertedFutures(call.row)

\* number of leading futures that belong to the vector mk_shares
NumKeyFutures(call) ==
    IF call.kind = "CappedCreditsWithAggregationBit" THEN 0 ELSE Len(call.row.mk_shares)

\* PRSS is keyed by the step path: two futures narrowed alike draw alike
PathKey(futures, path) ==
    CHOOSE f \in 1..Len(futures) :
        futures[f].path = path /\ \A g \in 1..(f - 1) : futures[g].path # path

\* the PRSS value helper e shares with the helper to its right, per path and record
ResharePrss(key, record_id, e) == (11 * key + 5 * record_id + 7 * e + 3) % PRIME

\* Context::reshare, the value sent: to_helper's left peer sends
\* part1 = left + right - r1, to_helper's right peer sends part2 = left - r0
ResharePart(h, own, key, call) ==
    IF h = LeftOf(call.to_helper)
    THEN (own[1] + own[2] - ResharePrss(key, call.record_id, h)) % PRIME
    ELSE (own[1] - ResharePrss(key, call.record_id, LeftOf(h))) % PRIME

\* Context::reshare, the new share: to_helper takes (r0, r1); its left peer
\* (part1 + part2, r1); its right peer (r0, part1 + part2)
ReshareNewShare(h, own, received, key, call) ==
    LET r0 == ResharePrss(key, call.record_id, LeftOf(h))
        r1 == ResharePrss(key, call.record_id, h)
        sum == (ResharePart(h, own, key, call) + received) % PRIME
    IN  IF h = call.to_helper THEN << r0, r1 >>
        ELSE IF h = LeftOf(call.to_helper) THEN << sum, r1 >>
        ELSE << r0, sum >>

\* the helper a sender exchanges parts with: the other peer of to_helper
ResharePeer(h, call) ==
    IF h = LeftOf(call.to_helper) THEN RightOf(call.to_helper) ELSE LeftOf(call.to_helper)

\* the message field reshare f of helper h sends
ReshareMessage(h, f, call) ==
    LET futures == ReshareFutures(call)
    IN  [from      |-> h,
         to        |-> ResharePeer(h, call),
         path      |-> futures[f].path,
         record_id |-> call.record_id,
         payload   |-> ResharePart(h, futures[f].input[h],
                                  PathKey(futures, futures[f].path), call),
         field     |-> f]

JoinAllAsCompleted(outputs, order) ==
    LET next(k) == outputs[order[k]] IN Tabulate(Len(order), next)

\* try_join_all: the outputs in the order of the futures, whatever order they completed in
JoinAll(outputs, order) == outputs

\* the row a call returns from the outputs of its field reshares
ReshareRowOf(call, outputs, order) ==
    IF call.kind = "CappedCreditsWithAggregationBit"
    THEN CappedCreditsRowOf(JoinAll(outputs, order))
    ELSE LET nk == NumKeyFutures(call)
             shift(k) == k - nk
             rest == SelectSeq(order, LAMBDA f : f > nk)
         IN  ModulusConvertedRowOf(
                 SubSeq(outputs, 1, nk),
                 JoinAll(SubSeq(outputs, nk + 1, Len(outputs)),
                         Tabulate(Len(rest), LAMBDA k : shift(rest[k]))))

\* the rows the calls are made on: helper_bit, aggregation_bit, breakdown_key, credit
ReshareCappedRows == { << 1, 0, 5, 18 >>, << 0, 1, 2, 7 >> }
\* mk_shares (bits), is_trigger_bit, breakdown_key, trigger_value
ReshareConvertedRows == { << <<1>>, 0, 2, 5 >>, << <<0>>, 1, 4, 3 >> }
ReshareRecordIds == {0, 2}

\* the jointly held shares of a row
ShareCappedRow(v) ==
    [helper_bit      |-> ShareOf(v[1], 3, 8),
     aggregation_bit |-> ShareOf(v[2], 14, 1),
     breakdown_key   |-> ShareOf(v[3], 9, 27),
     credit          |-> ShareOf(v[4], 20, 6)]

ShareConvertedRow(v) ==
    [mk_shares      |-> Tabulate(Len(v[1]), LAMBDA b : ShareOf(v[1][b], 4 + b, 17)),
     is_trigger_bit |-> ShareOf(v[2], 12, 30),
     breakdown_key  |-> ShareOf(v[3], 9, 27),
     trigger_value  |-> ShareOf(v[4], 2, 25)]

ReshareCalls ==
    { [kind |-> "CappedCreditsWithAggregationBit", row |-> ShareCappedRow(v),
       record_id |-> r, to_helper |-> t] :
        v \in ReshareCappedRows, r \in ReshareRecordIds, t \in Helpers }
    \cup
    { [kind |-> "IPAModulusConvertedInputRow", row |-> ShareConvertedRow(v),
       record_id |-> r, to_helper |-> t] :
        v \in ReshareConvertedRows, r \in ReshareRecordIds, t \in Helpers }

ReshareInit ==
    /\ SerdeIdle
    /\ IpaIdle
    /\ SortIdle
    /\ RecvIdle
    /\ LockIdle
    /\ HelperIdle
    /\ rs_call \in ReshareCalls
    /\ rs_pc = <<"start", "start", "start">>
    /\ rs_wire = {}
    /\ rs_outputs = LET none(h) == Tabulate(Len(ReshareFutures(rs_call)), LAMBDA f : NoShare)
                    IN  PerHelper(none)
    /\ rs_completed = << <<>>, <<>>, <<>> >>
    /\ rs_delivered = {}
    /\ rs_result = << <<>>, <<>>, <<>> >>

\* helper h calls reshare: to_helper's field reshares complete at once, in
\* order, from PRSS alone; the field reshares of the other two each send
\* their part and wait for the peer's
ReshareCall(h) ==
    /\ rs_pc[h] = "start"
    /\ LET futures == ReshareFutures(rs_call)
           n == Len(futures)
       IN  IF h = rs_call.to_helper
           THEN LET out(f) == ReshareNewShare(h, futures[f].input[h], 0,
                                              PathKey(futures, futures[f].path), rs_call)
                    outs == Tabulate(n, out)
                    order == Tabulate(n, LAMBDA f : f)
                IN  /\ rs_outputs' = [rs_outputs EXCEPT ![h] = outs]
                    /\ rs_completed' = [rs_completed EXCEPT ![h] = order]
                    /\ rs_result' = [rs_result EXCEPT ![h] = ReshareRowOf(rs_call, outs, order)]
                    /\ rs_pc' = [rs_pc EXCEPT ![h] = "done"]
                    /\ UNCHANGED rs_wire
           ELSE /\ rs_wire' = rs_wire \cup { ReshareMessage(h, f, rs_call) : f \in 1..n }
                /\ rs_pc' = [rs_pc EXCEPT ![h] = "waiting"]
                /\ UNCHANGED <<rs_outputs, rs_completed, rs_result>>
    /\ UNCHANGED <<rs_call, rs_delivered>>
    /\ UNCHANGED <<serdeVars, ipaVars, sortVars, recvVars, lockVars, helperVars>>

\* field reshare f of helper h receives: it is handed a message of the peer on
\* its channel (peer, step path) under its record id, and completes; when it
\* is the last one the call returns the row
ReshareReceive(h, f) ==
    /\ rs_pc[h] = "waiting"
    /\ f \in 1..Len(rs_outputs[h])
    /\ rs_outputs[h][f] = NoShare
    /\ LET futures == ReshareFutures(rs_call)
       IN  \E m \in rs_wire :
              /\ m.to = h
              /\ m.from = ResharePeer(h, rs_call)
              /\ m.path = futures[f].path
              /\ m.record_id = rs_call.record_id
              /\ rs_wire' = rs_wire \ {m}
              /\ rs_delivered' = rs_delivered \cup { << h, f, m.field >> }
              /\ LET outs == [rs_outputs[h] EXCEPT ![f] =
                                 ReshareNewShare(h, futures[f].input[h], m.payload,
                                                 PathKey(futures, futures[f].path), rs_call)]
                     order == Append(rs_completed[h], f)
                 IN  /\ rs_outputs' = [rs_outputs EXCEPT ![h] = outs]
                     /\ rs_completed' = [rs_completed EXCEPT ![h] = order]
                     /\ IF Len(order) = Len(futures)
                        THEN /\ rs_result' = [rs_result EXCEPT ![h] =
                                                 ReshareRowOf(rs_call, outs, order)]
                             /\ rs_pc' = [rs_pc EXCEPT ![h] = "done"]
                        ELSE UNCHANGED <<rs_result, rs_pc>>
    /\ UNCHANGED rs_call
    /\ UNCHANGED <<serdeVars, ipaVars, sortVars, recvVars, lockVars, helperVars>>

ReshareNext ==
    \/ \E h \in Helpers : ReshareCall(h)
    \/ \E h \in Helpers : \E f \in 1..Len(ReshareFutures(rs_call)) : ReshareReceive(h, f)

SpecReshare == ReshareInit /\ [][ReshareNext]_vars

----------------------------------------------------------------------------
(* One channel (peer, step path) at the receiving helper: the peer's stream of
   records reaches the helper through ReceiveRecords, and the gateway hands
   every record to the receive keyed on its record id *)

\* largest number of records the peer sends on the channel
RecvMaxRecords == 3

\* the payload of the peer's message for record r
PayloadOf(r) == (7 * r + 3) % PRIME

\* receive(r) was not called yet
NotCalled == [state |-> "none", payload |-> 0]

RecvInit ==
    /\ SerdeIdle
    /\ IpaIdle
    /\ SortIdle
    /\ ReshareIdle
    /\ LockIdle
    /\ HelperIdle
    /\ rc_inner = "Pending"
    /\ rc_streams = "empty"
    /\ rc_stream = <<>>
    /\ rc_stream_waker = FALSE
    /\ rc_woken = TRUE
    /\ \E n \in 1..RecvMaxRecords :
          /\ rc_unsent = 0..(n - 1)
          /\ rc_recv = [r \in 0..(n - 1) |-> NotCalled]
    /\ rc_table = {}
    /\ rc_yielded = <<>>

\* the peer transmits its message for one of its records, in any order; a
\* task waiting on the stream is woken
PeerSends(r) ==
    /\ r \in rc_unsent
    /\ rc_unsent' = rc_unsent \ {r}
    /\ rc_stream' = Append(rc_stream, [record_id |-> r, payload |-> PayloadOf(r)])
    /\ rc_woken' = (rc_woken \/ rc_stream_waker)
    /\ rc_stream_waker' = FALSE
    /\ UNCHANGED <<rc_inner, rc_streams, rc_table, rc_recv, rc_yielded>>
    /\ UNCHANGED <<serdeVars, ipaVars, sortVars, reshareVars, lockVars, helperVars>>

\* StreamCollection::add_stream: the peer's stream is received; a waker left
\* under the key is woken
StreamReceived ==
    /\ rc_streams \in {"empty", "waker"}
    /\ rc_inner = "Pending"
    /\ rc_streams' = "stream"
    /\ rc_woken' = (rc_woken \/ rc_streams = "waker")
    /\ UNCHANGED <<rc_inner, rc_stream, rc_stream_waker, rc_unsent, rc_table, rc_recv, rc_yielded>>
    /\ UNCHANGED <<serdeVars, ipaVars, sortVars, reshareVars, lockVars, helperVars>>

\* the gateway takes a record the stream yielded: it completes the receive
\* waiting on the record id, or keeps the record in the in-flight table
Delivered(item) ==
    IF rc_recv[item.record_id].state = "waiting"
    THEN /\ rc_recv' = [rc_recv EXCEPT ![item.record_id] =
                           [state |-> "done", payload |-> item.payload]]
         /\ UNCHANGED rc_table
    ELSE /\ rc_table' = rc_table \cup {item}
         /\ UNCHANGED rc_recv

\* poll_next of the stream once this struct proxies it: the next record, or
\* Pending with the waker left in the stream
PollStream ==
    IF rc_stream = <<>>
    THEN /\ rc_stream_waker' = TRUE
         /\ rc_woken' = FALSE
         /\ UNCHANGED <<rc_stream, rc_table, rc_recv, rc_yielded>>
    ELSE /\ rc_stream' = Tail(rc_stream)
         /\ rc_yielded' = Append(rc_yielded, Head(rc_stream))
         /\ Delivered(Head(rc_stream))
         /\ rc_woken' = TRUE
         /\ UNCHANGED rc_stream_waker

PollNextNoLoop ==
    /\ rc_woken
    /\ IF rc_inner = "Pending"
       THEN IF rc_streams = "stream"
            THEN /\ rc_inner' = "Ready"
                 /\ rc_streams' = "taken"
                 /\ rc_woken' = FALSE
                 /\ UNCHANGED <<rc_stream, rc_stream_waker, rc_table, rc_recv, rc_yielded>>
            ELSE /\ rc_streams' = "waker"
                 /\ rc_woken' = FALSE
                 /\ UNCHANGED <<rc_inner, rc_stream, rc_stream_waker, rc_table, rc_recv, rc_yielded>>
       ELSE /\ PollStream
            /\ UNCHANGED <<rc_inner, rc_streams>>
    /\ UNCHANGED rc_unsent
    /\ UNCHANGED <<serdeVars, ipaVars, sortVars, reshareVars, lockVars, helperVars>>

PollNextBackToPending ==
    /\ rc_woken
    /\ IF rc_inner = "Pending"
       THEN IF rc_streams = "stream"
            THEN /\ rc_inner' = "Ready"
                 /\ rc_streams' = "taken"
                 /\ PollStream
            ELSE /\ rc_streams' = "waker"
                 /\ rc_woken' = FALSE
                 /\ UNCHANGED <<rc_inner, rc_stream, rc_stream_waker, rc_table, rc_recv, rc_yielded>>
       ELSE IF rc_stream = <<>>
            THEN /\ rc_inner' = "Pending"
                 /\ rc_streams' = "stream"
                 /\ UNCHANGED <<rc_woken, rc_stream, rc_stream_waker, rc_table, rc_recv, rc_yielded>>
            ELSE /\ PollStream
                 /\ UNCHANGED <<rc_inner, rc_streams>>
    /\ UNCHANGED rc_unsent
    /\ UNCHANGED <<serdeVars, ipaVars, sortVars, reshareVars, lockVars, helperVars>>

PollNextNoWaker ==
    /\ rc_woken
    /\ IF rc_inner = "Pending"
       THEN IF rc_streams = "stream"
            THEN /\ rc_inner' = "Ready"
                 /\ rc_streams' = "taken"
                 /\ PollStream
            ELSE /\ rc_woken' = FALSE
                 /\ UNCHANGED <<rc_inner, rc_streams, rc_stream, rc_stream_waker, rc_table,
                                rc_recv, rc_yielded>>
       ELSE /\ PollStream
            /\ UNCHANGED <<rc_inner, rc_streams>>
    /\ UNCHANGED rc_unsent
    /\ UNCHANGED <<serdeVars, ipaVars, sortVars, reshareVars, lockVars, helperVars>>

\* ReceiveRecordsInner::poll_next, run by the task that feeds the gateway:
\* Pending asks the collection for the stream, leaving the waker when it is not
\* there yet, and turns Ready and polls the stream when it is; Ready polls the stream
PollNext ==
    /\ rc_woken
    /\ IF rc_inner = "Pending"
       THEN IF rc_streams = "stream"
            THEN /\ rc_inner' = "Ready"
                 /\ rc_streams' = "taken"
                 /\ PollStream
            ELSE /\ rc_streams' = "waker"
                 /\ rc_woken' = FALSE
                 /\ UNCHANGED <<rc_inner, rc_stream, rc_stream_waker, rc_table, rc_recv, rc_yielded>>
       ELSE /\ PollStream
            /\ UNCHANGED <<rc_inner, rc_streams>>
    /\ UNCHANGED rc_unsent
    /\ UNCHANGED <<serdeVars, ipaVars, sortVars, reshareVars, lockVars, helperVars>>

\* a task calls receive(r): it takes the message from the in-flight table when
\* it is there, and suspends otherwise
Receive(r) ==
    /\ r \in DOMAIN rc_recv
    /\ rc_recv[r].state = "none"
    /\ IF \E item \in rc_table : item.record_id = r
       THEN LET item == CHOOSE i \in rc_table : i.record_id = r
            IN  /\ rc_recv' = [rc_recv EXCEPT ![r] = [state |-> "done", payload |-> item.payload]]
                /\ rc_table' = rc_table \ {item}
       ELSE /\ rc_recv' = [rc_recv EXCEPT ![r] = [state |-> "waiting", payload |-> 0]]
            /\ UNCHANGED rc_table
    /\ UNCHANGED <<rc_inner, rc_streams, rc_stream, rc_stream_waker, rc_woken, rc_unsent, rc_yielded>>
    /\ UNCHANGED <<serdeVars, ipaVars, sortVars, reshareVars, lockVars, helperVars>>

RecvNext ==
    \/ \E r \in 0..(RecvMaxRecords - 1) : PeerSends(r)
    \/ StreamReceived
    \/ PollNext
    \/ \E r \in 0..(RecvMaxRecords - 1) : Receive(r)

SpecReceive == RecvInit /\ [][RecvNext]_vars

\* the helper's event loop runs every woken task, the transport hands over the
\* peer's stream, and the protocol calls receive for every record
SpecReceiveFair ==
    /\ SpecReceive
    /\ WF_vars(PollNext)
    /\ WF_vars(StreamReceived)
    /\ \A r \in 0..(RecvMaxRecords - 1) : WF_vars(Receive(r))

----------------------------------------------------------------------------
(* One query as the three helpers run it side by side: every helper narrows
   its context step after step, starts the step's per-record tasks, each of
   which sends to the right peer and receives from the left one, and goes on
   to the next step when all its tasks are done. How the receives of one
   channel complete one by one is followed in SpecReceive. *)

\* largest number of input rows
LockMaxRows == 3

\* max_breakdown_key of the query
LockMaxBreakdownKey == 1

\* the step paths of a query in the order ipa narrows to them, the sorts of
\* aggregate_credit included
LockstepSteps ==
    << <<StepSegment.ModulusConversionForMatchKeys>>,
       <<StepSegment.GenSortPermutationFromMatchKeys>>,
       <<StepSegment.ApplySortPermutation>>,
       <<StepSegment.ComputeHelperBits>>,
       <<StepSegment.AccumulateCredit>>,
       <<StepSegment.PerformUserCapping>>,
       <<StepSegment.AggregateCredit, AggregateStepSegment.GeneratePermutationByAttributionBit>>,
       <<StepSegment.AggregateCredit, AggregateStepSegment.ApplyPermutationOnAttributionBit>>,
       <<StepSegment.AggregateCredit, AggregateStepSegment.BitDecomposeBreakdownKey>>,
       <<StepSegment.AggregateCredit, AggregateStepSegment.GeneratePermutationByBreakdownKey>>,
       <<StepSegment.AggregateCredit, AggregateStepSegment.ApplyPermutationOnBreakdownKey>>,
       <<StepSegment.AggregateCredit>> >>

LockstepPathDiverged(h, k) ==
    IF h = 3 /\ LockstepSteps[k] = <<StepSegment.AccumulateCredit>>
    THEN <<StepSegment.PerformUserCapping>>
    ELSE IF h = 3 /\ LockstepSteps[k] = <<StepSegment.PerformUserCapping>>
         THEN <<StepSegment.AccumulateCredit>>
         ELSE LockstepSteps[k]

\* the path helper h narrows to for its k-th step: the three run the same code
LockstepPath(h, k) == LockstepSteps[k]

\* one task per row, row i (from 0) under record id i
RowTasks(n) ==
    Tabulate(n, LAMBDA i : [rows |-> <<i - 1>>, record_id |-> i - 1])

HelperBitTasksSameRecord(n) ==
    Tabulate(IF n = 0 THEN 0 ELSE n - 1, LAMBDA i : [rows |-> <<i - 1, i>>, record_id |-> 0])

\* ipa, lines 238-247: one bitwise_equal per adjacent pair of sorted rows, the
\* pair (row i, row i+1) under RecordId::from(i)
HelperBitTasks(n) ==
    Tabulate(IF n = 0 THEN 0 ELSE n - 1, LAMBDA i : [rows |-> <<i - 1, i>>, record_id |-> i - 1])

\* bit_decompose_breakdown_key: one BitDecomposition per row, row i under
\* RecordId::from(i)
BitDecomposeTasks(n) ==
    Tabulate(n, LAMBDA i : [rows |-> <<i - 1>>, record_id |-> i - 1])

\* the tasks a helper holding n input rows runs concurrently under a step;
\* aggregate_credit works on the input rows and one more row per breakdown key
StepTasks(path, n) ==
    IF path = <<StepSegment.ComputeHelperBits>> THEN HelperBitTasks(n)
    ELSE IF path = <<StepSegment.AggregateCredit, AggregateStepSegment.BitDecomposeBreakdownKey>>
         THEN BitDecomposeTasks(n + LockMaxBreakdownKey)
         ELSE IF Head(path) = StepSegment.AggregateCredit
              THEN RowTasks(n + LockMaxBreakdownKey)
              ELSE RowTasks(n)

\* the three helpers are handed inputs of the same length
LockstepInit ==
    /\ SerdeIdle
    /\ IpaIdle
    /\ SortIdle
    /\ ReshareIdle
    /\ RecvIdle
    /\ HelperIdle
    /\ \E n \in 0..LockMaxRows : lk_rows = <<n, n, n>>
    /\ lk_pc = <<0, 0, 0>>
    /\ lk_pending = <<{}, {}, {}>>
    /\ lk_issued = << <<>>, <<>>, <<>> >>
    /\ lk_wire = {}

\* helper h has returned from ipa
LockstepCompleted(h) == lk_pc[h] = Len(LockstepSteps) /\ lk_pending[h] = {}

\* helper h, all tasks of its last step done, narrows to its next step and
\* starts the step's tasks: each sends its message to the right peer and then
\* waits for the left peer's
LockstepIssue(h) ==
    /\ lk_pc[h] < Len(LockstepSteps)
    /\ lk_pending[h] = {}
    /\ LET k     == lk_pc[h] + 1
           path  == LockstepPath(h, k)
           tasks == StepTasks(path, lk_rows[h])
           ids   == {tasks[t].record_id : t \in 1..Len(tasks)}
       IN  /\ lk_pc' = [lk_pc EXCEPT ![h] = k]
           /\ lk_pending' = [lk_pending EXCEPT ![h] = ids]
           /\ lk_issued' = [lk_issued EXCEPT ![h] =
                  @ \o Tabulate(Len(tasks), LAMBDA t :
                           [step |-> k, path |-> path, record_id |-> tasks[t].record_id,
                            rows |-> tasks[t].rows])]
           /\ lk_wire' = lk_wire \cup {[from |-> h, path |-> path, record_id |-> r] : r \in ids}
    /\ UNCHANGED lk_rows
    /\ UNCHANGED <<serdeVars, ipaVars, sortVars, reshareVars, recvVars, helperVars>>

\* the message helper h waits for under record id r
LockstepAwaited(h, r) ==
    [from |-> LeftOf(h), path |-> LockstepPath(h, lk_pc[h]), record_id |-> r]

\* the tasks of helper h's step are all done: every receive(r) on the channel
\* (left peer, path of the step) was handed the peer's message for r
LockstepAwaitAll(h) ==
    /\ lk_pending[h] # {}
    /\ \A r \in lk_pending[h] : LockstepAwaited(h, r) \in lk_wire
    /\ lk_wire' = lk_wire \ {LockstepAwaited(h, r) : r \in lk_pending[h]}
    /\ lk_pending' = [lk_pending EXCEPT ![h] = {}]
    /\ UNCHANGED <<lk_rows, lk_pc, lk_issued>>
    /\ UNCHANGED <<serdeVars, ipaVars, sortVars, reshareVars, recvVars, helperVars>>

LockstepNext ==
    \/ \E h \in Helpers : LockstepIssue(h)
    \/ \E h \in Helpers : LockstepAwaitAll(h)

SpecLockstep == LockstepInit /\ [][LockstepNext]_vars

\* every helper's event loop runs the tasks that can go on
SpecLockstepFair ==
    /\ SpecLockstep
    /\ \A h \in Helpers :
          /\ WF_vars(LockstepIssue(h))
          /\ WF_vars(LockstepAwaitAll(h))

----------------------------------------------------------------------------
(* The helper process: main of bin/helper.rs, the query-processor task it
   spawns and the transport server task bind starts *)

\* largest number of handle_next calls followed
HelperMaxHandled == 4

\* the values given as --identity; a negative one stands for text that is no usize
IdentityArgs == -1..4

\* HelperIdentity::make_three
MakeThree == <<0, 1, 2>>

\* the values HelperIdentity::try_from accepts
HelperIdentities == {MakeThree[k] : k \in 1..3}

HelperInit ==
    /\ SerdeIdle
    /\ IpaIdle
    /\ SortIdle
    /\ ReshareIdle
    /\ RecvIdle
    /\ LockIdle
    /\ hp_pc = "start"
    /\ hp_identity \in IdentityArgs
    /\ hp_processor_identities = <<>>
    /\ hp_server = "none"
    /\ hp_query = "none"
    /\ hp_handled = 0
    /\ hp_exit = -1

\* line 38: Args::parse exits with a usage error when --identity is no usize
ParseArgs ==
    /\ hp_pc = "start"
    /\ IF hp_identity < 0
       THEN hp_pc' = "exited" /\ hp_exit' = 2
       ELSE hp_pc' = "parsed" /\ UNCHANGED hp_exit
    /\ UNCHANGED <<hp_identity, hp_processor_identities, hp_server, hp_query, hp_handled>>
    /\ UNCHANGED <<serdeVars, ipaVars, sortVars, reshareVars, recvVars, lockVars>>

ProcessorIdentitiesUnfiltered(my_identity) ==
    << my_identity, MakeThree[1], MakeThree[2] >>

\* lines 44-52: the helper's own identity, then the first two of make_three
\* that are not its own
ProcessorIdentities(my_identity) ==
    LET all_identities == SelectSeq(MakeThree, LAMBDA id : id # my_identity)
    IN  << my_identity, all_identities[1], all_identities[2] >>

\* lines 42-52: try_from(args.identity).unwrap() panics on a value that is no
\* helper identity; otherwise the processor identities are put together
MakeIdentities ==
    /\ hp_pc = "parsed"
    /\ IF hp_identity \in HelperIdentities
       THEN /\ hp_processor_identities' = ProcessorIdentities(hp_identity)
            /\ hp_pc' = "identified"
            /\ UNCHANGED hp_exit
       ELSE /\ hp_pc' = "exited"
            /\ hp_exit' = 101
            /\ UNCHANGED hp_processor_identities
    /\ UNCHANGED <<hp_identity, hp_server, hp_query, hp_handled>>
    /\ UNCHANGED <<serdeVars, ipaVars, sortVars, reshareVars, recvVars, lockVars>>

\* lines 54-67: tokio::spawn of the query-processor task
SpawnQuery ==
    /\ hp_pc = "identified"
    /\ hp_query' = "running"
    /\ hp_pc' = "spawned"
    /\ UNCHANGED <<hp_identity, hp_processor_identities, hp_server, hp_handled, hp_exit>>
    /\ UNCHANGED <<serdeVars, ipaVars, sortVars, reshareVars, recvVars, lockVars>>

\* line 68: helper.bind() starts the transport server task
Bind ==
    /\ hp_pc = "spawned"
    /\ hp_server' = "running"
    /\ hp_pc' = "listening"
    /\ UNCHANGED <<hp_identity, hp_processor_identities, hp_query, hp_handled, hp_exit>>
    /\ UNCHANGED <<serdeVars, ipaVars, sortVars, reshareVars, recvVars, lockVars>>

\* lines 59-65: one turn of the query processor's loop; the task runs beside
\* main from the spawn on and is not polled again once aborted
HandleNext ==
    /\ hp_query = "running"
    /\ hp_handled < HelperMaxHandled
    /\ hp_handled' = hp_handled + 1
    /\ UNCHANGED <<hp_pc, hp_identity, hp_processor_identities, hp_server, hp_query, hp_exit>>
    /\ UNCHANGED <<serdeVars, ipaVars, sortVars, reshareVars, recvVars, lockVars>>

\* line 74: read_line returns a line, or 0 bytes at EOF
ReadLine ==
    /\ hp_pc = "listening"
    /\ hp_pc' = "read"
    /\ UNCHANGED <<hp_identity, hp_processor_identities, hp_server, hp_query, hp_handled,
                   hp_exit>>
    /\ UNCHANGED <<serdeVars, ipaVars, sortVars, reshareVars, recvVars, lockVars>>

\* line 74: read_line fails and ? returns the error from main; the runtime is
\* dropped with the tasks it holds
ReadLineFails ==
    /\ hp_pc = "listening"
    /\ hp_pc' = "exited"
    /\ hp_exit' = 1
    /\ hp_server' = "dropped"
    /\ hp_query' = "dropped"
    /\ UNCHANGED <<hp_identity, hp_processor_identities, hp_handled>>
    /\ UNCHANGED <<serdeVars, ipaVars, sortVars, reshareVars, recvVars, lockVars>>

\* line 75
AbortServer ==
    /\ hp_pc = "read"
    /\ hp_server' = "aborted"
    /\ hp_pc' = "server_aborted"
    /\ UNCHANGED <<hp_identity, hp_processor_identities, hp_query, hp_handled, hp_exit>>
    /\ UNCHANGED <<serdeVars, ipaVars, sortVars, reshareVars, recvVars, lockVars>>

AbortQuerySkipped ==
    /\ hp_pc = "server_aborted"
    /\ hp_pc' = "query_aborted"
    /\ UNCHANGED <<hp_identity, hp_processor_identities, hp_server, hp_query, hp_handled,
                   hp_exit>>
    /\ UNCHANGED <<serdeVars, ipaVars, sortVars, reshareVars, recvVars, lockVars>>

\* line 76
AbortQuery ==
    /\ hp_pc = "server_aborted"
    /\ hp_query' = "aborted"
    /\ hp_pc' = "query_aborted"
    /\ UNCHANGED <<hp_identity, hp_processor_identities, hp_server, hp_handled, hp_exit>>
    /\ UNCHANGED <<serdeVars, ipaVars, sortVars, reshareVars, recvVars, lockVars>>

\* line 78: main returns Ok(())
ReturnOk ==
    /\ hp_pc = "query_aborted"
    /\ hp_pc' = "exited"
    /\ hp_exit' = 0
    /\ UNCHANGED <<hp_identity, hp_processor_identities, hp_server, hp_query, hp_handled>>
    /\ UNCHANGED <<serdeVars, ipaVars, sortVars, reshareVars, recvVars, lockVars>>

HelperNext ==
    \/ ParseArgs
    \/ MakeIdentities
    \/ SpawnQuery
    \/ Bind
    \/ HandleNext
    \/ ReadLine
    \/ ReadLineFails
    \/ AbortServer
    \/ AbortQuery
    \/ ReturnOk

SpecHelper == HelperInit /\ [][HelperNext]_vars

\* the runtime runs main to its end: every step of main that needs no input is
\* taken; when a line arrives on stdin is up to the operator
SpecHelperFair ==
    /\ SpecHelper
    /\ WF_vars(ParseArgs)
    /\ WF_vars(MakeIdentities)
    /\ WF_vars(SpawnQuery)
    /\ WF_vars(Bind)
    /\ WF_vars(AbortServer)
    /\ WF_vars(AbortQuery)
    /\ WF_vars(ReturnOk)

----------------------------------------------------------------------------
(* Claims about the wire format, checked under SpecSerde *)

\* the bytes of row k in a buffer of rows serialized back to back
RowBytes(b, k) == SubSeq(b, (k - 1) * SIZE_IN_BYTES + 1, k * SIZE_IN_BYTES)

\* C1: N >= 1 rows serialized back to back into N * SIZE_IN_BYTES bytes come
\* back from from_byte_slice as exactly N rows, equal field by field to the
\* serialized rows and in the same order.
C1_FromByteSliceRoundTrip ==
    (spc = "from_byte_slice" /\ Len(buf) = Len(rows) * SIZE_IN_BYTES)
        => /\ outcome = "ok"
           /\ Len(parsed) = Len(rows)
           /\ \A k \in 1..Len(rows) :
                /\ parsed[k].mk_shares = rows[k].mk_shares
                /\ parsed[k].is_trigger_bit = rows[k].is_trigger_bit
                /\ parsed[k].breakdown_key = rows[k].breakdown_key
                /\ parsed[k].trigger_value = rows[k].trigger_value

C1_Witness ==
    /\ spc = "from_byte_slice"
    /\ Len(rows) >= 2
    /\ rows[1] # rows[2]
    /\ Len(buf) = Len(rows) * SIZE_IN_BYTES
    /\ parsed = rows

\* C2: deserialize on a buffer of exactly SIZE_IN_BYTES bytes returns Ok with
\* the row one iteration of from_byte_slice produces for that buffer.
C2_DeserializeMatchesFromByteSlice ==
    spc = "deserialize"
        => /\ outcome = "ok"
           /\ single = FromByteSliceRows(buf)[1]
           /\ single = rows[1]

\* C3: a serialized row occupies exactly SIZE_IN_BYTES bytes, laid out as
\* mk_shares, is_trigger_bit, breakdown_key, trigger_value at consecutive
\* non-overlapping offsets, and serialize and from_byte_slice use the same
\* offset for every field.
C3_Layout ==
    spc = "serialized"
        => /\ Len(buf) = Len(rows) * SIZE_IN_BYTES
           /\ \A k \in 1..Len(rows) :
                LET c  == RowBytes(buf, k)
                    o1 == XorReplicatedSize
                    o2 == o1 + ReplicatedSize
                    o3 == o2 + ReplicatedSize
                    o4 == o3 + ReplicatedSize
                IN  /\ SubSeq(c, 1, o1) = XorReplicatedSerialize(rows[k].mk_shares)
                    /\ SubSeq(c, o1 + 1, o2) = ReplicatedSerialize(rows[k].is_trigger_bit)
                    /\ SubSeq(c, o2 + 1, o3) = ReplicatedSerialize(rows[k].breakdown_key)
                    /\ SubSeq(c, o3 + 1, o4) = ReplicatedSerialize(rows[k].trigger_value)
                    /\ o4 = SIZE_IN_BYTES
                    /\ ChunkToRow(c) = rows[k]
           /\ \A f \in DOMAIN SerializeOffsets : SerializeOffsets[f] = ReadOffsets[f]

C3_Witness ==
    /\ spc = "serialized"
    /\ Len(rows) >= 2
    /\ Len(buf) = 2 * SIZE_IN_BYTES
    /\ SubSeq(RowBytes(buf, 2), XorReplicatedSize + 2 * ReplicatedSize + 1, SIZE_IN_BYTES)
          = ReplicatedSerialize(rows[2].trigger_value)
    /\ rows[2].trigger_value # rows[2].breakdown_key

\* C4 as stated: a buffer whose length is no multiple of SIZE_IN_BYTES fails
\* with the "unaligned buffer" input error, before any row is produced.
C4_UnalignedBufferError ==
    (spc = "from_byte_slice" /\ Len(buf) % SIZE_IN_BYTES # 0)
        => /\ outcome = "error: unaligned buffer"
           /\ parsed = <<>>

\* C4 amended: a buffer whose length is no multiple of SIZE_IN_BYTES makes
\* from_byte_slice panic with "input is not aligned", before any row is
\* produced.
C4_MisalignedPanics ==
    (spc = "from_byte_slice" /\ Len(buf) % SIZE_IN_BYTES # 0)
        => /\ outcome = "panic: input is not aligned"
           /\ parsed = <<>>

C4_Witness ==
    /\ spc = "from_byte_slice"
    /\ Len(buf) % SIZE_IN_BYTES # 0
    /\ Len(buf) > SIZE_IN_BYTES
    /\ outcome = "panic: input is not aligned"
    /\ parsed = <<>>

----------------------------------------------------------------------------
(* Claims about the attribution pipeline, checked under SpecIpa *)

\* the sum of F(1), ..., F(n)
SumOver(n, F(_)) == SumSeq(Tabulate(n, F))

\* the match key of sorted row i, in the clear
SortedMatchKey(i) ==
    LET bit(b) == Reconstruct(<< sorted_rows[1][i].mk_shares[b], sorted_rows[2][i].mk_shares[b],
                                 sorted_rows[3][i].mk_shares[b] >>)
    IN  BitsValue(Tabulate(Len(sorted_rows[1][i].mk_shares), bit))

\* rows i and j of the sorted order belong to the same user
SameUser(i, j) == SortedMatchKey(i) = SortedMatchKey(j)

\* the trigger value sorted row j brings: its trigger_value if it is a trigger row
TriggerValueOf(j) == Val(sorted_rows, j, "is_trigger_bit") * Val(sorted_rows, j, "trigger_value")

\* C5: a successful ipa call with max_breakdown_key = M returns exactly M rows
\* at every helper, and the reconstructed breakdown keys of those rows are
\* 0, 1, ..., M-1 in that order.
C5_OneRowPerBreakdownKey ==
    ipc = StepSegment.AggregateCredit
        => /\ \A h \in Helpers : Len(result[h]) = max_breakdown_key
           /\ \A k \in 1..max_breakdown_key : Val(result, k, "breakdown_key") = k - 1

C5_Witness ==
    /\ ipc = StepSegment.AggregateCredit
    /\ NumRows(input_rows) = MaxRows
    /\ Len(result[1]) = max_breakdown_key
    /\ \E k \in 1..Len(result[1]) : Val(result, k, "credit") > 0

C7_OutputCreditPerKey ==
    ipc = StepSegment.AggregateCredit
        => \A k \in 0..(max_breakdown_key - 1) :
              LET credit(i) == IF Val(user_capped_credits, i, "breakdown_key") = k
                               THEN Val(user_capped_credits, i, "credit") ELSE 0
              IN  /\ k + 1 <= Len(result[1])
                  /\ Val(result, k + 1, "credit")
                        = SumOver(NumRows(user_capped_credits), credit) % PRIME

C7_Witness ==
    /\ ipc = StepSegment.AggregateCredit
    /\ Val(result, 1, "credit") > 0
    /\ Val(result, 2, "credit") > 0
    /\ \E i \in 1..NumRows(user_capped_credits) :
          Val(user_capped_credits, i, "credit") < Val(accumulated_credits, i, "credit")

\* the query is tests::semi_honest over test_cases::Simple
SimpleQuery ==
    /\ NumRows(input_rows) = Len(SimpleRecords)
    /\ \A i \in 1..Len(SimpleRecords) : InputRecord(i) = SimpleRecords[i]
    /\ per_user_credit_cap = PER_USER_CAP
    /\ max_breakdown_key = MAX_BREAKDOWN_KEY

CumulativeBefore(i) ==
    LET before(j) == IF j < i /\ SameUser(j, i)
                     THEN Val(accumulated_credits, j, "credit") ELSE 0
    IN  SumOver(NumRows(accumulated_credits), before)

\* C10: credit_capping with cap C scans every user's block in order: a row keeps
\* its credit while the cumulative credit of the block up to and including it
\* is <= C; the first row that would exceed C is set to C minus the cumulative
\* credit before it; every later row of the block is set to 0; the rows of
\* other users do not matter to it.
C10_CappingScan ==
    ipc = StepSegment.PerformUserCapping
        => /\ NumRows(user_capped_credits) = NumRows(accumulated_credits)
           /\ \A i \in 1..NumRows(user_capped_credits) :
                 LET own == Val(accumulated_credits, i, "credit")
                     cum == CumulativeBefore(i)
                 IN  Val(user_capped_credits, i, "credit") =
                        IF cum + own <= per_user_credit_cap THEN own
                        ELSE IF cum <= per_user_credit_cap THEN per_user_credit_cap - cum
                        ELSE 0

C10_Witness ==
    /\ ipc = StepSegment.PerformUserCapping
    /\ \E i \in 1..NumRows(user_capped_credits) :
          /\ Val(user_capped_credits, i, "credit") > 0
          /\ Val(user_capped_credits, i, "credit") < Val(accumulated_credits, i, "credit")
    /\ \E i \in 1..NumRows(user_capped_credits) :
          /\ Val(accumulated_credits, i, "credit") > 0
          /\ Val(user_capped_credits, i, "credit") = 0

\* the input row a stable sort by match key puts at position p
StableSource(p) ==
    LET n == NumRows(input_rows)
        mk(i) == InputRecord(i).match_key
        keys == Tabulate(n, mk)
    IN  CHOOSE i \in 1..n :
           Cardinality({j \in 1..n : keys[j] < keys[i] \/ (keys[j] = keys[i] /\ j < i)}) + 1 = p

\* sorted row p, in the clear
SortedRecord(p) ==
    [match_key      |-> SortedMatchKey(p),
     is_trigger_bit |-> Val(sorted_rows, p, "is_trigger_bit"),
     breakdown_key  |-> Val(sorted_rows, p, "breakdown_key"),
     trigger_value  |-> Val(sorted_rows, p, "trigger_value")]

\* C13: after the ApplySortPermutation stage the rows are in non-decreasing
\* order of match key, rows with equal match key keep their input order, and
\* every row carries the is_trigger_bit, breakdown_key and trigger_value of the
\* input row its match key came from.
C13_SortedByMatchKey ==
    ipc = StepSegment.ApplySortPermutation
        => /\ NumRows(sorted_rows) = NumRows(input_rows)
           /\ \A p \in 2..NumRows(sorted_rows) : SortedMatchKey(p - 1) <= SortedMatchKey(p)
           /\ \A p \in 1..NumRows(sorted_rows) : SortedRecord(p) = InputRecord(StableSource(p))

C13_Witness ==
    /\ ipc = StepSegment.ApplySortPermutation
    /\ NumRows(sorted_rows) >= 3
    /\ \E p \in 1..NumRows(sorted_rows) : StableSource(p) # p
    /\ \E i, j \in 1..NumRows(input_rows) :
          /\ i < j
          /\ InputRecord(i).match_key = InputRecord(j).match_key
          /\ InputRecord(i) # InputRecord(j)

\* C14: ipa produces one helper bit per sorted row: that of the first row is a
\* share of 0, and that of every later row i is 1 if sorted rows i-1 and i have
\* the same match key and 0 otherwise.
C14_HelperBits ==
    ipc = StepSegment.ComputeHelperBits
        => /\ NumRows(attribution_input_rows) = NumRows(sorted_rows)
           /\ \A i \in 1..NumRows(attribution_input_rows) :
                 Val(attribution_input_rows, i, "helper_bit") =
                    IF i > 1 /\ SameUser(i - 1, i) THEN 1 ELSE 0

C14_Witness ==
    /\ ipc = StepSegment.ComputeHelperBits
    /\ \E i, j \in 2..NumRows(attribution_input_rows) :
          /\ Val(attribution_input_rows, i, "helper_bit") = 1
          /\ Val(attribution_input_rows, j, "helper_bit") = 0

\* C15: whenever modulus conversion, permutation generation, permutation
\* application, helper-bit computation, accumulation, capping or aggregation
\* fails, ipa returns Err to its caller.
C15_FailuresReturnErr ==
    [][\A k \in 1..Len(StepOrder) : SubProtocolFailsAt(StepOrder[k]) => ipc' = "Err"]_vars

BreakdownKeysOf(rs) ==
    LET key(i) == Val(rs, i, "breakdown_key") IN Tabulate(NumRows(rs), key)

\* what ipa returns on a query of n rows whose capped rows all have breakdown
\* key 0 and credit 0; n = 0 is the query over the empty input
ReferenceResult(n) ==
    LET J(i) == [breakdown_key |-> ReplicatedZero, credit |-> ReplicatedZero]
    IN  AggregateCredit(Distribute(Tabulate(n, J)), max_breakdown_key, NUM_MULTI_BITS,
                        StepIndex(StepSegment.AggregateCredit))

\* C17: the length of ipa's output and the positions of its breakdown keys
\* depend only on max_breakdown_key: every execution returns a vector of the
\* length, and with the breakdown key at every index, of the execution over
\* the empty input with the same max_breakdown_key, so any two executions
\* with the same max_breakdown_key agree with each other.
C17_OutputShapeDataIndependent ==
    ipc = StepSegment.AggregateCredit
        => /\ NumRows(user_capped_credits) = NumRows(input_rows)
           /\ BreakdownKeysOf(result) = BreakdownKeysOf(ReferenceResult(0))

C17_Witness ==
    /\ ipc = StepSegment.AggregateCredit
    /\ NumRows(input_rows) >= 2
    /\ \E i, j \in 1..NumRows(input_rows) :
          InputRecord(i).breakdown_key # InputRecord(j).breakdown_key
    /\ \E k \in 1..Len(result[1]) : Val(result, k, "credit") > 0
    /\ \E k \in 1..Len(result[1]) : Val(result, k, "credit") = 0

----------------------------------------------------------------------------
(* Claims about the aggregation sort, checked under SpecSort *)

\* the rows handed to the sort and the rows it returned, in the clear
SortInputRow(i) == ReconstructAttributionTestInput(sort_input, i)
SortOutputRow(p) == ReconstructAttributionTestInput(sort_output, p)

\* input row i goes before input row j: smaller breakdown key, then smaller
\* aggregation bit, then earlier in the input
SortsBefore(i, j) ==
    LET a == SortInputRow(i)
        b == SortInputRow(j)
    IN  \/ a[2] < b[2]
        \/ a[2] = b[2] /\ a[4] < b[4]
        \/ a[2] = b[2] /\ a[4] = b[4] /\ i < j

\* C11: sort_by_aggregation_bit_and_breakdown_key returns the rows in ascending
\* breakdown_key order; within one breakdown key rows with aggregation_bit 0
\* precede rows with aggregation_bit 1; rows equal in both keys keep their
\* input order.
C11_SortedLexicographically ==
    sort_pc = "sorted"
        => LET n == NumRows(sort_input)
           IN  /\ NumRows(sort_output) = n
               /\ \A p \in 2..n :
                     \/ SortOutputRow(p - 1)[2] < SortOutputRow(p)[2]
                     \/ /\ SortOutputRow(p - 1)[2] = SortOutputRow(p)[2]
                        /\ SortOutputRow(p - 1)[4] <= SortOutputRow(p)[4]
               /\ \A i \in 1..n :
                     SortOutputRow(Cardinality({j \in 1..n : SortsBefore(j, i)}) + 1)
                        = SortInputRow(i)
               \* tests::sort: RAW_INPUT comes out as EXPECTED
               /\ (n = Len(RAW_INPUT) /\ \A i \in 1..n : SortInputRow(i) = RAW_INPUT[i])
                     => \A p \in 1..n : SortOutputRow(p) = EXPECTED[p]

C11_Witness ==
    /\ sort_pc = "sorted"
    /\ NumRows(sort_input) >= 3
    \* two rows of one breakdown key enter with aggregation bit 1 before 0
    /\ \E i, j \in 1..NumRows(sort_input) :
          /\ i < j
          /\ SortInputRow(i)[2] = SortInputRow(j)[2]
          /\ SortInputRow(i)[4] > SortInputRow(j)[4]
    \* and two rows equal in both keys differ otherwise
    /\ \E i, j \in 1..NumRows(sort_input) :
          /\ i < j
          /\ SortInputRow(i)[2] = SortInputRow(j)[2]
          /\ SortInputRow(i)[4] = SortInputRow(j)[4]
          /\ SortInputRow(i) # SortInputRow(j)

\* C12: sort_by_aggregation_bit_and_breakdown_key moves rows as whole units:
\* the output has the length of the input, and every row (helper_bit,
\* breakdown_key, credit, aggregation_bit) occurs in the output as often as in
\* the input.
C12_RowsArePermuted ==
    sort_pc = "sorted"
        => LET n == NumRows(sort_input)
           IN  /\ \A h \in Helpers : Len(sort_output[h]) = n
               /\ \A i \in 1..n :
                     Cardinality({p \in 1..n : SortOutputRow(p) = SortInputRow(i)})
                        = Cardinality({j \in 1..n : SortInputRow(j) = SortInputRow(i)})

C12_Witness ==
    /\ sort_pc = "sorted"
    /\ NumRows(sort_input) >= 3
    /\ \E p \in 1..NumRows(sort_input) : SortOutputRow(p) # SortInputRow(p)
    /\ \E i, j \in 1..NumRows(sort_input) :
          /\ SortInputRow(i)[1] # SortInputRow(j)[1]
          /\ SortInputRow(i)[3] # SortInputRow(j)[3]

----------------------------------------------------------------------------
(* Claims about composite reshare, checked under SpecReshare *)

\* every helper's call has returned
ReshareDone == \A h \in Helpers : rs_pc[h] = "done"

\* the three helpers' shares of a value are consistent: each right share is the
\* right peer's left share
ConsistentShares(sh) == \A h \in Helpers : sh[h][2] = sh[RightOf(h)][1]

\* field name of the rows returned, as the helpers jointly hold it
ReshareResult(name) == << rs_result[1][name], rs_result[2][name], rs_result[3][name] >>

\* a field of the returned rows is a consistent sharing of the input field's value
SameSecret(old, new) == ConsistentShares(new) /\ Reconstruct(new) = Reconstruct(old)

\* C18: reshare on a composite row returns a row of the same type in which
\* every field reconstructs across the three helpers to the value of the
\* corresponding input field, each result in its own field, whatever order the
\* concurrent field reshares complete in.
C18_ReshareKeepsEveryField ==
    ReshareDone
        => /\ \A h \in Helpers : DOMAIN rs_result[h] = DOMAIN rs_call.row
           /\ \A name \in DOMAIN rs_call.row :
                 IF name = "mk_shares"
                 THEN /\ \A h \in Helpers :
                            Len(rs_result[h].mk_shares) = Len(rs_call.row.mk_shares)
                      /\ \A b \in 1..Len(rs_call.row.mk_shares) :
                            SameSecret(rs_call.row.mk_shares[b],
                                       << rs_result[1].mk_shares[b], rs_result[2].mk_shares[b],
                                          rs_result[3].mk_shares[b] >>)
                 ELSE SameSecret(rs_call.row[name], ReshareResult(name))

\* all three calls returned, a helper's last field reshare completed first, and
\* a returned row differs from the shares handed in
C18_Witness ==
    /\ ReshareDone
    /\ \E h \in Helpers : rs_completed[h][1] = Len(rs_completed[h])
    /\ \E h \in Helpers : rs_result[h] # [f \in DOMAIN rs_call.row |-> rs_call.row[f][h]]

\* C19: within one composite reshare call the field reshares narrow with
\* pairwise distinct segments: no two of them send or receive on the same
\* (peer, step path, record id) key, and a message of one field is never
\* delivered to the waiter of another field.
C19_DistinctChannels ==
    /\ rs_call.kind # "none"
          => \A f, g \in 1..Len(ReshareFutures(rs_call)) :
                f # g => ReshareFutures(rs_call)[f].path # ReshareFutures(rs_call)[g].path
    /\ \A m1, m2 \in rs_wire :
          (m1.from = m2.from /\ m1.to = m2.to /\ m1.path = m2.path
              /\ m1.record_id = m2.record_id) => m1 = m2
    /\ \A d \in rs_delivered : d[2] = d[3]

\* several messages of one sender are in flight while a receive has completed
C19_Witness ==
    /\ rs_delivered # {}
    /\ \E m1, m2 \in rs_wire : m1.from = m2.from /\ m1.field # m2.field
    /\ \E h \in Helpers : rs_pc[h] = "waiting" /\ Len(rs_completed[h]) >= 2

----------------------------------------------------------------------------
(* Claims about one channel, checked under SpecReceiveFair *)

\* the peer's message for record r was sent
Sent(r) == r \in DOMAIN rc_recv /\ r \notin rc_unsent

\* the places a sent message can be: in the stream, in the in-flight table, or
\* handed to its receive
InStream(r) == \E k \in 1..Len(rc_stream) : rc_stream[k].record_id = r
InTable(r) == \E item \in rc_table : item.record_id = r
Received(r) == r \in DOMAIN rc_recv /\ rc_recv[r].state = "done"

\* no receive completes early or with another record's message, and no message is lost
RecvSafe ==
    \A r \in DOMAIN rc_recv :
       /\ Received(r) => (Sent(r) /\ rc_recv[r].payload = PayloadOf(r))
       /\ \A item \in rc_table : item.record_id = r =>
             (item.payload = PayloadOf(r) /\ rc_recv[r].state = "none")
       /\ Sent(r) => \/ InStream(r) /\ ~InTable(r) /\ ~Received(r)
                     \/ ~InStream(r) /\ InTable(r) /\ ~Received(r)
                     \/ ~InStream(r) /\ ~InTable(r) /\ Received(r)

\* C20: on one channel every message sent is delivered to the receive waiting
\* on the same record id, whatever order the messages arrive in: receive(r)
\* does not complete before the message for r has arrived, no message is
\* dropped or handed to a receive for another record id, and every message
\* sent is in the end received.
C20_DeliveredByRecordId ==
    /\ []RecvSafe
    /\ \A r \in 0..(RecvMaxRecords - 1) : Sent(r) ~> Received(r)

\* a message that arrived ahead of an earlier record's was handed to its
\* receive while the receive for the earlier record waits, and another message
\* is kept for a receive not yet called
C20_Witness ==
    /\ \E a, b \in DOMAIN rc_recv :
          /\ a < b
          /\ ~Sent(a)
          /\ rc_recv[a].state = "waiting"
          /\ Received(b)
    /\ \E c \in DOMAIN rc_recv : InTable(c)

----------------------------------------------------------------------------
(* Claims about ReceiveRecords, checked under SpecReceive and SpecReceiveFair *)

IsPrefix(s, t) == Len(s) <= Len(t) /\ SubSeq(t, 1, Len(s)) = s

\* the items of the received stream in the order the stream holds them: those
\* already yielded, then those still in it
StreamOrder == rc_yielded \o rc_stream

\* C23: ReceiveRecords starts Pending; it is Ready exactly when it has taken
\* the stream for its key out of the collection; once Ready it stays Ready and
\* leaves the collection alone; nothing is yielded while Pending, and every
\* item yielded is the one at the head of the received stream, so the items
\* come out in the stream's order, none lost and none twice.
C23_ProxiesTheReceivedStream ==
    /\ rc_inner = "Pending"
    /\ [](rc_inner = "Ready" <=> rc_streams = "taken")
    /\ [](rc_inner = "Pending" => rc_yielded = <<>>)
    /\ [][rc_inner = "Ready" => (rc_inner' = "Ready" /\ rc_streams' = rc_streams)]_vars
    /\ [][rc_inner' = "Ready" => (rc_inner = "Ready" \/ rc_streams = "stream")]_vars
    /\ [][rc_yielded' # rc_yielded =>
             /\ rc_stream # <<>>
             /\ rc_yielded' = Append(rc_yielded, Head(rc_stream))
             /\ rc_stream' = Tail(rc_stream)]_vars
    /\ [][IsPrefix(StreamOrder, StreamOrder')]_vars

\* Ready, two items yielded in the stream's order, which is not the order of
\* their record ids, and a third still in the stream
C23_Witness ==
    /\ rc_inner = "Ready"
    /\ Len(rc_yielded) = 2
    /\ rc_yielded[1].record_id > rc_yielded[2].record_id
    /\ rc_stream # <<>>

\* the polling task is scheduled, or its waker is held by the collection or
\* by the stream
WakerHeld == rc_woken \/ rc_streams = "waker" \/ rc_stream_waker

\* C24: a poll made while the stream is not in the collection leaves the waker
\* under the key and returns Pending; a poll made when the stream is there
\* turns Ready and polls the stream in the same call; the task is never left
\* unscheduled without its waker held; so once the peer's stream holds an item,
\* the receiver in the end yields a first item.
C24_NoLostWakeup ==
    /\ [][(PollNext /\ rc_inner = "Pending" /\ rc_streams # "stream") =>
             (rc_inner' = "Pending" /\ rc_streams' = "waker" /\ ~rc_woken'
              /\ rc_yielded' = rc_yielded)]_vars
    /\ [][(PollNext /\ rc_inner = "Pending" /\ rc_streams = "stream") =>
             /\ rc_inner' = "Ready"
             /\ rc_stream # <<>> => rc_yielded' = <<Head(rc_stream)>>
             /\ rc_stream = <<>> => rc_stream_waker']_vars
    /\ []WakerHeld
    /\ (rc_stream # <<>>) ~> (rc_yielded # <<>>)

\* the receiver was polled before the stream was in the collection: it is
\* suspended, its waker is under the key, and the peer's first item is on its way
C24_Witness ==
    /\ rc_inner = "Pending"
    /\ rc_streams = "waker"
    /\ ~rc_woken
    /\ rc_stream # <<>>

----------------------------------------------------------------------------
(* Claims about the helper process, checked under SpecHelperFair and SpecHelper *)

\* C22: once main has read a line or EOF from stdin it aborts the transport
\* server task and the query-processor task and then exits with status 0:
\* status 0 is only reached with both tasks aborted, and is reached from the
\* read; once the query-processor task is aborted no further handle_next
\* completes. With an --identity that is no helper identity the process exits
\* with a non-zero status and no task was ever spawned.
C22_CleanShutdown ==
    /\ [](hp_exit = 0 => (hp_server = "aborted" /\ hp_query = "aborted"))
    /\ (hp_pc = "read") ~> (hp_exit = 0)
    /\ [][hp_query = "aborted" => (hp_query' = "aborted" /\ hp_handled' = hp_handled)]_vars
    /\ [](hp_identity \notin HelperIdentities =>
             (hp_server = "none" /\ hp_query = "none" /\ hp_exit # 0))
    /\ (hp_pc = "start" /\ hp_identity \notin HelperIdentities) ~>
          (hp_exit \in {2, 101})

\* the process has exited with status 0 after the query processor had handled
\* commands
C22_Witness ==
    /\ hp_exit = 0
    /\ hp_handled >= 2
    /\ hp_server = "aborted"
    /\ hp_query = "aborted"

\* C27: for every valid identity the three identities handed to the query
\* processor are pairwise distinct, are together the three helper identities,
\* and are the helper's own identity followed by the other two in ascending order.
C27_ProcessorIdentities ==
    hp_processor_identities # <<>> =>
        /\ hp_identity \in HelperIdentities
        /\ Len(hp_processor_identities) = 3
        /\ \A a, b \in 1..3 : a # b => hp_processor_identities[a] # hp_processor_identities[b]
        /\ {hp_processor_identities[k] : k \in 1..3} = HelperIdentities
        /\ hp_processor_identities[1] = hp_identity
        /\ hp_processor_identities[2] < hp_processor_identities[3]

\* the helper in the middle lists itself first, then the lower and the higher one
C27_Witness ==
    /\ hp_query = "running"
    /\ hp_processor_identities = <<1, 0, 2>>

----------------------------------------------------------------------------
(* Claims about the three helpers running one query, checked under
   SpecLockstepFair and SpecLockstep *)

\* the receive of helper h under record id r has its message on the wire, or
\* the left peer has yet to reach the step
Matched(h, r) ==
    \/ LockstepAwaited(h, r) \in lk_wire
    \/ lk_pc[LeftOf(h)] < lk_pc[h]

\* C21: with the same parameters and inputs of the same length the three
\* helpers issue the same sequence of step paths and record ids (of any two
\* helpers, the tasks one has started, each with its path and record id, are
\* the beginning of the tasks the other has started), every
\* receive waits for a message the peer sends on the same path and record id,
\* and ipa in the end returns at all three helpers.
C21_HelpersInLockstep ==
    /\ [](\A a, b \in Helpers :
             \/ IsPrefix(lk_issued[a], lk_issued[b])
             \/ IsPrefix(lk_issued[b], lk_issued[a]))
    /\ [](\A h \in Helpers : \A r \in lk_pending[h] : Matched(h, r))
    /\ <>(\A h \in Helpers : LockstepCompleted(h))

\* all three helpers have returned from a query over rows, every message received
C21_Witness ==
    /\ \A h \in Helpers : LockstepCompleted(h)
    /\ lk_rows[1] >= 2
    /\ lk_wire = {}
    /\ \A h \in Helpers : lk_issued[h] = lk_issued[1]

\* C25: the tasks a helper runs concurrently under one step have pairwise
\* distinct record ids: under bit_decompose_breakdown_key the task of row i
\* has record id i, and under compute_helper_bits the task of the pair
\* (row i, row i+1) has record id i; so no two tasks issued under one path
\* share a record id (there are as many pairs of path and record id as tasks).
C25_DistinctRecordIds ==
    \A h \in DOMAIN lk_issued :
       LET issued == lk_issued[h]
       IN  /\ Cardinality({<<issued[t].path, issued[t].record_id>> : t \in 1..Len(issued)})
                 = Len(issued)
           /\ \A t \in 1..Len(issued) :
                 /\ issued[t].path = <<StepSegment.ComputeHelperBits>> =>
                       /\ issued[t].rows = <<issued[t].record_id, issued[t].record_id + 1>>
                       /\ issued[t].record_id \in 0..(lk_rows[h] - 2)
                 /\ issued[t].path = <<StepSegment.AggregateCredit,
                                       AggregateStepSegment.BitDecomposeBreakdownKey>> =>
                       /\ issued[t].rows = <<issued[t].record_id>>
                       /\ issued[t].record_id \in 0..(lk_rows[h] + LockMaxBreakdownKey - 1)

\* a helper that ran two helper-bit tasks at once now runs four bit
\* decompositions at once
C25_Witness ==
    \E h \in Helpers :
       /\ lk_pc[h] > 0
       /\ LockstepPath(h, lk_pc[h]) =
              <<StepSegment.AggregateCredit, AggregateStepSegment.BitDecomposeBreakdownKey>>
       /\ lk_pending[h] = {0, 1, 2, 3}
       /\ \E s, t \in 1..Len(lk_issued[h]) :
             /\ lk_issued[h][s].path = <<StepSegment.ComputeHelperBits>>
             /\ lk_issued[h][t].path = <<StepSegment.ComputeHelperBits>>
             /\ lk_issued[h][s].rows = <<0, 1>>
             /\ lk_issued[h][t].rows = <<1, 2>>

\* the segments of a step enumeration
Segments(step) == {step[name] : name \in DOMAIN step}

\* C26: the seven stages of ipa have seven different segments, the five sort
\* steps of aggregate_credit have five different segments, and tasks a helper
\* starts in different steps are under different paths, so the generation and
\* the application of a sort's permutation never share a channel.
C26_DistinctStepPaths ==
    /\ Cardinality(Segments(StepSegment)) = 7
    /\ Cardinality(Segments(AggregateStepSegment)) = 5
    /\ \A h \in DOMAIN lk_issued :
          LET started == {<<lk_issued[h][t].step, lk_issued[h][t].path>> :
                             t \in 1..Len(lk_issued[h])}
          IN  \A s, t \in started : s[1] # t[1] => s[2] # t[2]

\* a helper has started the application of the permutation by attribution bit
\* while its peer still waits under the generation of that permutation
C26_Witness ==
    \E h \in Helpers :
       /\ lk_pc[h] > 0
       /\ lk_pc[RightOf(h)] > 0
       /\ LockstepPath(h, lk_pc[h]) =
              <<StepSegment.AggregateCredit, AggregateStepSegment.ApplyPermutationOnAttributionBit>>
       /\ lk_pending[h] # {}
       /\ LockstepPath(RightOf(h), lk_pc[RightOf(h)]) =
              <<StepSegment.AggregateCredit, AggregateStepSegment.GeneratePermutationByAttributionBit>>
       /\ lk_pending[RightOf(h)] # {}

====
